---- MODULE Spec2Model ----
(***************************************************************************)
(* HomeChef: the data-access layer (app/db/dao.py), the AI response        *)
(* normalisation pipeline (app/services/gemini_service.py) and the local   *)
(* fallback matching of the recipe list (app/ui/widgets/recipe_list.py).   *)
(*                                                                         *)
(* Text is modelled as a sequence of one-character strings, so that        *)
(* str.lower, str.strip, substring tests, SQL LIKE and ORDER BY are        *)
(* computed character by character.                                        *)
(***************************************************************************)
EXTENDS Integers, Sequences, FiniteSets, TLC

VARIABLES
    pantry,     \* table pantry(item UNIQUE, quantity): a set of rows
    grocery,    \* table grocery(item UNIQUE, quantity, checked): a set of rows
    recipes,    \* table recipes: a sequence of rows in rowid order
    call,       \* the last data-access call: its name, arguments and pre-state
    ret,        \* what that call returned
    resp,       \* a response text of the service, as composed: prefix, body, suffix
    parsed,     \* what the parse ladder of request_json made of it
    model_name, \* GeminiService.model_name (the model handle is built from it)
    svc,        \* the GeminiService call under way: operation, position, counters
    svc_result, \* what the last GeminiService call returned or raised
    chat,       \* GeminiChat: the model and the history of its chat handle
    chat_call,  \* the GeminiChat.send under way: position, counters
    chat_result, \* what the last GeminiChat.send returned or raised
    data,       \* suggest_from_ingredients: what _generate_json returned to it
    suggestion, \* what suggest_from_ingredients returned or raised
    favorites,  \* table favorites(recipe_id): the ids in rowid order
    marked,     \* history: the ids whose latest set_favorite had favorite=True
    worker,     \* a Worker: the position of its run, the wrapped function
    signals,    \* the signals that Worker has emitted, in order
    buttons,    \* the control of each AI action: enabled or not, its label
    jobs,       \* the outstanding calls: the action and its handler's old label
    cooking,    \* CookingWidget: recipe, step_index, the Previous/Next buttons
    chat_present, \* ChatWidget.chat is not None
    calls,      \* per page, its AI call's thread: position, the objects it used
    connections, \* the sqlite connections opened so far, in order
    store,      \* the database file: whether it exists, the startups so far
    glist       \* GroceryWidget.list: per row its text, check state and data

daoVars == <<pantry, grocery, recipes, call, ret>>
jsonVars == <<resp, parsed>>
svcVars == <<model_name, svc, svc_result>>
chatVars == <<chat, chat_call, chat_result>>
sugVars == <<data, suggestion>>
aiVars == <<jsonVars, svcVars, chatVars, sugVars>>

favVars == <<favorites, marked>>
workerVars == <<worker, signals>>
uiVars == <<buttons, jobs, cooking, chat_present>>
appVars == <<favVars, workerVars, uiVars, calls, connections, store, glist>>

\* The application but for one of its parts
notFav == <<workerVars, uiVars, calls, connections, store, glist>>
notWorker == <<favVars, uiVars, calls, connections, store, glist>>
notUi == <<favVars, workerVars, calls, connections, store, glist>>
notCalls == <<favVars, workerVars, uiVars, connections, store, glist>>
notConnections == <<favVars, workerVars, uiVars, calls, store, glist>>
notStore == <<workerVars, uiVars, calls, connections, glist>>
notGlist == <<favVars, workerVars, uiVars, calls, connections, store>>

vars == <<daoVars, aiVars, appVars>>

(***************************************************************************)
(* Text                                                                    *)
(***************************************************************************)

\* Bounds of the model
MaxIngredients == 2

\* The empty string
Empty == <<>>

\* ord(c) of the characters the model uses
Code(c) ==
    CASE c = " " -> 32
      [] c = "%" -> 37
      [] c = "1" -> 49
      [] c = "2" -> 50
      [] c = "A" -> 65
      [] c = "B" -> 66
      [] c = "_" -> 95
      [] c = "a" -> 97
      [] c = "b" -> 98
      [] c = "c" -> 99
      [] c = "d" -> 100
      [] OTHER -> 120

\* str.lower() of one character
LowerCh(c) ==
    CASE c = "A" -> "a"
      [] c = "B" -> "b"
      [] OTHER -> c

\* str.lower()
Lower(s) == [i \in 1..Len(s) |-> LowerCh(s[i])]

\* str.strip(): leading and trailing blanks removed
RECURSIVE Strip(_)
Strip(s) ==
    IF s = <<>> THEN s
    ELSE IF Head(s) = " " THEN Strip(Tail(s))
    ELSE IF s[Len(s)] = " " THEN Strip(SubSeq(s, 1, Len(s) - 1))
    ELSE s

\* s < t in the binary (code point) order SQLite's ORDER BY and Python's sort use
StrLess(s, t) ==
    \E i \in 1..Len(t) :
        /\ i - 1 <= Len(s)
        /\ \A j \in 1..(i - 1) : s[j] = t[j]
        /\ (i > Len(s) \/ Code(s[i]) < Code(t[i]))

\* t in n (Python substring test)
Contains(n, t) ==
    \E i \in 0..(Len(n) - Len(t)) : SubSeq(n, i + 1, i + Len(t)) = t

\* dict.get(key, default) on a JSON object modelled as a record
Get(d, key, default) == IF key \in DOMAIN d THEN d[key] ELSE default

(***************************************************************************)
(* Pantry                                                                  *)
(***************************************************************************)

\* Rows of a table with a text key `item`, ORDER BY item ASC
RECURSIVE OrderByItem(_)
OrderByItem(rows) ==
    IF rows = {} THEN <<>>
    ELSE LET first == CHOOSE r \in rows : \A o \in rows : ~StrLess(o.item, r.item)
         IN  <<first>> \o OrderByItem(rows \ {first})

\* list_pantry(): (item, quantity) tuples ordered by item
list_pantry(p) ==
    LET rows == OrderByItem(p)
    IN  [i \in 1..Len(rows) |-> <<rows[i].item, rows[i].quantity>>]

\* INSERT ... ON CONFLICT(item) DO UPDATE SET quantity=excluded.quantity
upsert_pantry_item(p, item, quantity) ==
    LET it == Strip(item)
        q  == Strip(quantity)
    IN  IF \E r \in p : r.item = it
        THEN {IF r.item = it THEN [r EXCEPT !.quantity = q] ELSE r : r \in p}
        ELSE p \cup {[item |-> it, quantity |-> q]}

\* DELETE FROM pantry WHERE item = ?
remove_pantry_item(p, item) == {r \in p : r.item # item}

\* A plausible slip: the first pair of a lowercased name is the one kept
RECURSIVE PantryDictKeepingFirst(_)
PantryDictKeepingFirst(pairs) ==
    IF pairs = <<>> THEN <<>>
    ELSE LET d    == PantryDictKeepingFirst(SubSeq(pairs, 1, Len(pairs) - 1))
             last == pairs[Len(pairs)]
             key  == Lower(last[1])
         IN  [k \in (DOMAIN d) \cup {key} |-> IF k \in DOMAIN d THEN d[k] ELSE last[2]]

\* {name.lower(): qty for name, qty in list_pantry()}: a later pair overwrites
RECURSIVE PantryDict(_)
PantryDict(pairs) ==
    IF pairs = <<>> THEN <<>>
    ELSE LET d    == PantryDict(SubSeq(pairs, 1, Len(pairs) - 1))
             last == pairs[Len(pairs)]
             key  == Lower(last[1])
         IN  [k \in (DOMAIN d) \cup {key} |-> IF k = key THEN last[2] ELSE d[k]]

\* A plausible slip: the lowercased name is what gets appended
RECURSIVE MissingLoopLowered(_, _)
MissingLoopLowered(ings, d) ==
    IF ings = <<>> THEN <<>>
    ELSE LET name == Lower(Get(Head(ings), "name", Empty))
             rest == MissingLoopLowered(Tail(ings), d)
         IN  IF name = Empty THEN rest
             ELSE IF name \notin DOMAIN d \/ d[name] = Empty
                  THEN <<name>> \o rest
                  ELSE rest

\* The loop of compute_missing_ingredients over recipe.ingredients
RECURSIVE MissingLoop(_, _)
MissingLoop(ings, d) ==
    IF ings = <<>> THEN <<>>
    ELSE LET name == Lower(Get(Head(ings), "name", Empty))
             rest == MissingLoop(Tail(ings), d)
         IN  IF name = Empty THEN rest
             ELSE IF name \notin DOMAIN d \/ d[name] = Empty
                  THEN <<Get(Head(ings), "name", Empty)>> \o rest
                  ELSE rest

compute_missing_ingredients(p, ings) == MissingLoop(ings, PantryDict(list_pantry(p)))

\* Inputs
PantryItemArgs == {<<"a">>, <<"A">>, <<"b">>, <<" ", "a">>}
QuantityArgs   == {<<>>, <<"1">>, <<" ">>}
IngredientArgs ==
    {[quantity |-> <<"1">>]} \cup
    {[name |-> n, quantity |-> <<"1">>] : n \in {<<>>, <<"a">>, <<"A">>, <<"b">>}}

RECURSIVE SeqsUpTo(_, _)
SeqsUpTo(S, n) ==
    IF n = 0 THEN {<<>>}
    ELSE LET shorter == SeqsUpTo(S, n - 1)
         IN  shorter \cup {Append(s, x) : s \in {t \in shorter : Len(t) = n - 1}, x \in S}

IngredientLists == SeqsUpTo(IngredientArgs, MaxIngredients)

NoCall == [op |-> "none"]

UpsertPantryItem ==
    \E item \in PantryItemArgs, quantity \in QuantityArgs :
        /\ pantry' = upsert_pantry_item(pantry, item, quantity)
        /\ call' = NoCall
        /\ ret' = <<>>
        /\ UNCHANGED <<grocery, recipes, aiVars, appVars>>

RemovePantryItem ==
    \E item \in PantryItemArgs :
        /\ pantry' = remove_pantry_item(pantry, item)
        /\ call' = NoCall
        /\ ret' = <<>>
        /\ UNCHANGED <<grocery, recipes, aiVars, appVars>>

ComputeMissingIngredients ==
    \E ings \in IngredientLists :
        /\ call' = [op |-> "compute_missing_ingredients", ingredients |-> ings]
        /\ ret' = compute_missing_ingredients(pantry, ings)
        /\ UNCHANGED <<pantry, grocery, recipes, aiVars, appVars>>

DaoInit ==
    /\ pantry = {}
    /\ grocery = {}
    /\ recipes = <<>>
    /\ call = NoCall
    /\ ret = <<>>

\* No response under way
JsonIdle ==
    /\ resp = [prefix |-> <<>>, body |-> <<>>, suffix |-> <<>>]
    /\ parsed = [state |-> "none"]

\* The configured model: GEMINI_MODEL, or the default when it is not set
ConfiguredModel == "gemini-1.5-flash"

\* GeminiService.__init__ done, no call under way
SvcIdle ==
    /\ model_name = ConfiguredModel
    /\ svc = [op |-> "none", key |-> "", pc |-> "idle", switches |-> 0,
              requests |-> 0, retries |-> 0, not_found |-> 0,
              first |-> <<>>, plain |-> <<>>]
    /\ svc_result = [state |-> "none"]

\* GeminiChat.__init__ done, no send under way
ChatIdle ==
    /\ chat = [model |-> ConfiguredModel, history |-> 0]
    /\ chat_call = [pc |-> "idle", sends |-> 0, switches |-> 0, next |-> 0,
                    error |-> <<>>, before |-> 0]
    /\ chat_result = [state |-> "none"]

\* No suggestion under way
SugIdle ==
    /\ data = [null |-> TRUE]
    /\ suggestion = [state |-> "none"]

\* No favorite yet
FavIdle ==
    /\ favorites = <<>>
    /\ marked = {}

\* No Worker yet
WorkerIdle ==
    /\ worker = [pc |-> "none", fn |-> "none", outcome |-> [state |-> "none"]]
    /\ signals = <<>>

\* The AI actions of the pages and the labels of their controls
AiActions == {"suggest", "substitutions", "tip", "send"}

IdleLabel(a) == CASE a = "suggest" -> "Suggest with AI"
                  [] a = "substitutions" -> "Ask Substitutions (AI)"
                  [] a = "tip" -> "Ask AI Tip"
                  [] a = "send" -> "Send"

BusyLabel(a) == CASE a = "suggest" -> "Suggesting"
                  [] a = "send" -> "Sending"
                  [] OTHER -> "Asking"

\* The pages as built, with an AI service: every control enabled under its
\* own label, no recipe in the cooking page, no call outstanding
UiBuilt ==
    /\ buttons = [a \in AiActions |-> [enabled |-> TRUE, text |-> IdleLabel(a)]]
    /\ jobs = <<>>
    /\ cooking = [recipe |-> FALSE, steps |-> 0, step_index |-> 0,
                  prev_btn |-> TRUE, next_btn |-> TRUE]

UiIdle == UiBuilt /\ chat_present = TRUE

\* The pages that start AI calls
Pages == {"recipes_page", "detail_page", "cooking_page", "chat_page"}

\* No thread of any page
CallsIdle == calls = [w \in Pages |-> [pc |-> "idle", used |-> {}, switched |-> FALSE]]

\* The rest of the application at rest
\* The database file as an earlier startup left it
StoreIdle == store = [exists |-> TRUE, runs |-> 0, seedings |-> 0, failed |-> FALSE]

\* No connection opened yet, the store as found
DbIdle == connections = <<>> /\ StoreIdle /\ glist = <<>>

AppIdle == FavIdle /\ WorkerIdle /\ UiIdle /\ CallsIdle /\ DbIdle

AiIdle == JsonIdle /\ SvcIdle /\ ChatIdle /\ SugIdle /\ AppIdle

PantryInit == DaoInit /\ AiIdle

PantryNext ==
    \/ UpsertPantryItem
    \/ RemovePantryItem
    \/ ComputeMissingIngredients

SpecPantry == PantryInit /\ [][PantryNext]_vars

(***************************************************************************)
(* C1: compute_missing_ingredients returns, in recipe order and original   *)
(* casing, once per occurrence, exactly the ingredient names that are      *)
(* non-empty and whose lowercased form matches no pantry item (items       *)
(* lowercased) or matches one with an empty quantity.  Where several       *)
(* pantry items are equal ignoring case, the one greatest in item order    *)
(* (the last that list_pantry returns) is the matching one.                *)
(***************************************************************************)
C1_Matching(n) == {r \in pantry : Lower(r.item) = Lower(n)}

C1_Deciding(n) ==
    CHOOSE r \in C1_Matching(n) : \A o \in C1_Matching(n) : o = r \/ StrLess(o.item, r.item)

C1_IsMissing(n) ==
    /\ n # Empty
    /\ (C1_Matching(n) = {} \/ C1_Deciding(n).quantity = Empty)

list_grocery(g) ==
    LET rows == OrderByItem({r \in g : ~r.checked}) \o OrderByItem({r \in g : r.checked})
    IN  [i \in 1..Len(rows) |-> <<rows[i].item, rows[i].quantity, rows[i].checked>>]

\* A plausible slip: the conflict clause updates the quantity only
upsert_grocery_item_keeps_checked(g, item, quantity, checked) ==
    LET it == Strip(item)
        q  == Strip(quantity)
    IN  IF \E r \in g : r.item = it
        THEN {IF r.item = it THEN [r EXCEPT !.quantity = q] ELSE r : r \in g}
        ELSE g \cup {[item |-> it, quantity |-> q, checked |-> checked]}

\* INSERT ... ON CONFLICT(item) DO UPDATE SET quantity=excluded.quantity,
\* checked=excluded.checked
upsert_grocery_item(g, item, quantity, checked) ==
    LET it == Strip(item)
        q  == Strip(quantity)
    IN  IF \E r \in g : r.item = it
        THEN {IF r.item = it THEN [r EXCEPT !.quantity = q, !.checked = checked] ELSE r
                : r \in g}
        ELSE g \cup {[item |-> it, quantity |-> q, checked |-> checked]}

\* UPDATE grocery SET checked = ? WHERE item = ?
set_grocery_checked(g, item, checked) ==
    {IF r.item = item THEN [r EXCEPT !.checked = checked] ELSE r : r \in g}

\* DELETE FROM grocery WHERE item = ?
remove_grocery_item(g, item) == {r \in g : r.item # item}

\* DELETE FROM grocery [WHERE checked = 1]
clear_grocery(g, only_checked) == IF only_checked THEN {r \in g : ~r.checked} ELSE {}

GroceryItemArgs == {<<"a">>, <<"A">>, <<"b">>, <<" ", "a">>}

UpsertGroceryItem ==
    \E item \in GroceryItemArgs, quantity \in QuantityArgs, checked \in BOOLEAN :
        /\ grocery' = upsert_grocery_item(grocery, item, quantity, checked)
        /\ call' = [op |-> "upsert_grocery_item", item |-> item, quantity |-> quantity,
                    checked |-> checked, pre |-> grocery]
        /\ ret' = <<>>
        /\ UNCHANGED <<pantry, recipes, aiVars, appVars>>

SetGroceryChecked ==
    \E item \in GroceryItemArgs, checked \in BOOLEAN :
        /\ grocery' = set_grocery_checked(grocery, item, checked)
        /\ call' = NoCall
        /\ ret' = <<>>
        /\ UNCHANGED <<pantry, recipes, aiVars, appVars>>

RemoveGroceryItem ==
    \E item \in GroceryItemArgs :
        /\ grocery' = remove_grocery_item(grocery, item)
        /\ call' = NoCall
        /\ ret' = <<>>
        /\ UNCHANGED <<pantry, recipes, aiVars, appVars>>

ClearGrocery ==
    \E only_checked \in BOOLEAN :
        /\ grocery' = clear_grocery(grocery, only_checked)
        /\ call' = NoCall
        /\ ret' = <<>>
        /\ UNCHANGED <<pantry, recipes, aiVars, appVars>>

ListGrocery ==
    /\ call' = [op |-> "list_grocery"]
    /\ ret' = list_grocery(grocery)
    /\ UNCHANGED <<pantry, grocery, recipes, aiVars, appVars>>

GroceryInit == DaoInit /\ AiIdle

GroceryNext ==
    \/ UpsertGroceryItem
    \/ SetGroceryChecked
    \/ RemoveGroceryItem
    \/ ClearGrocery
    \/ ListGrocery

SpecGrocery == GroceryInit /\ [][GroceryNext]_vars

(***************************************************************************)
(* C3 (as amended): upsert_grocery_item is idempotent and overwriting.     *)
(* After a call with (item, quantity, checked) the store holds exactly one *)
(* entry of that name, carrying the new quantity and the new checked flag  *)
(* (also when an entry of that name existed, and when checked goes from    *)
(* true to false), every other entry is as before, and applying the same   *)
(* triple again changes nothing; the name and the quantity are the given   *)
(* ones trimmed of surrounding whitespace.                                 *)
(***************************************************************************)
C3_UpsertIdempotentOverwrite ==
    call.op = "upsert_grocery_item" =>
        LET name == Strip(call.item)
            new  == [item |-> name, quantity |-> Strip(call.quantity),
                     checked |-> call.checked]
        IN  /\ new \in grocery
            /\ Cardinality({r \in grocery : r.item = name}) = 1
            /\ {r \in grocery : r.item # name} = {r \in call.pre : r.item # name}
            /\ upsert_grocery_item(grocery, call.item, call.quantity, call.checked)
                 = grocery

\* A same-named re-upsert of a checked entry with another quantity and
\* checked = false, beside another entry that stays as it was
C3_Witness ==
    /\ call.op = "upsert_grocery_item"
    /\ ~call.checked
    /\ \E old \in call.pre :
          /\ old.item = Strip(call.item)
          /\ old.checked
          /\ old.quantity # Strip(call.quantity)
    /\ \E other \in grocery : other.item # Strip(call.item)

\* C3 as stated: a second application of the same triple changes nothing, and
\* upserting a name that already exists leaves one entry of that name, carrying
\* the given quantity and checked flag, and the other entries unchanged
C3_AsStated ==
    call.op = "upsert_grocery_item" =>
        /\ upsert_grocery_item(grocery, call.item, call.quantity, call.checked)
             = grocery
        /\ (\E old \in call.pre : old.item = call.item) =>
              /\ [item |-> call.item, quantity |-> call.quantity,
                  checked |-> call.checked] \in grocery
              /\ Cardinality({r \in grocery : r.item = call.item}) = 1
              /\ {r \in grocery : r.item # call.item}
                   = {r \in call.pre : r.item # call.item}

(***************************************************************************)
(* Recipes                                                                 *)
(***************************************************************************)

MaxRecipes == 2
MaxTitles == 3

\* sep.join(parts)
RECURSIVE Join(_, _)
Join(parts, sep) ==
    IF parts = <<>> THEN <<>>
    ELSE IF Len(parts) = 1 THEN parts[1]
    ELSE parts[1] \o sep \o Join(Tail(parts), sep)

\* s.split(","): the pieces between the commas
RECURSIVE Split(_)
Split(s) ==
    IF \A i \in 1..Len(s) : s[i] # ","
    THEN <<s>>
    ELSE LET k == CHOOSE i \in 1..Len(s) : s[i] = "," /\ \A j \in 1..(i - 1) : s[j] # ","
         IN  <<SubSeq(s, 1, k - 1)>> \o Split(SubSeq(s, k + 1, Len(s)))

\* [c.strip() for c in (row["categories"] or "").split(",") if c.strip()]
SplitCategories(s) ==
    LET pieces == Split(s)
        kept   == SelectSeq(pieces, LAMBDA c : Strip(c) # Empty)
    IN  [i \in 1..Len(kept) |-> Strip(kept[i])]

\* Recipe.from_row
from_row(row) ==
    [id |-> row.id, title |-> row.title, description |-> row.description,
     ingredients |-> row.ingredients, time_minutes |-> row.time_minutes,
     difficulty |-> row.difficulty, categories |-> SplitCategories(row.categories)]

\* insert_recipe: the row appended, its id the next rowid
insert_recipe(rs, title, description, ingredients, time_minutes, difficulty, categories) ==
    Append(rs, [id |-> Len(rs) + 1, title |-> title, description |-> description,
                ingredients |-> ingredients, time_minutes |-> time_minutes,
                difficulty |-> difficulty, categories |-> Join(categories, <<",">>)])

\* Every order in which the rows numbered by `idx` can come back
Orderings(idx) ==
    {o \in [1..Cardinality(idx) -> idx] : \A i, j \in DOMAIN o : i # j => o[i] # o[j]}

\* {str(r["title"]): Recipe.from_row(r) for r in rows}: a later row overwrites
RECURSIVE TitleDict(_)
TitleDict(rows) ==
    IF rows = <<>> THEN <<>>
    ELSE LET d    == TitleDict(SubSeq(rows, 1, Len(rows) - 1))
             last == rows[Len(rows)]
         IN  [k \in (DOMAIN d) \cup {last.title} |->
                IF k = last.title THEN from_row(last) ELSE d[k]]

\* A plausible slip: the rows are returned as the query delivered them
find_recipes_in_row_order(rows, titles) ==
    [i \in 1..Len(rows) |-> from_row(rows[i])]

\* find_recipes_by_titles, given the rows of
\* SELECT * FROM recipes WHERE title IN (...) in the order delivered
find_recipes_by_titles(rows, titles) ==
    IF titles = <<>> THEN <<>>
    ELSE LET title_to_recipe == TitleDict(rows)
             hits == SelectSeq(titles, LAMBDA t : t \in DOMAIN title_to_recipe)
         IN  [i \in 1..Len(hits) |-> title_to_recipe[hits[i]]]

\* SQLite's LIKE: % matches any run of characters, _ any one character, and
\* letters match without regard to case
RECURSIVE Like(_, _)
Like(s, pattern) ==
    IF pattern = <<>> THEN s = <<>>
    ELSE IF Head(pattern) = "%"
         THEN \E k \in 0..Len(s) : Like(SubSeq(s, k + 1, Len(s)), Tail(pattern))
    ELSE IF s = <<>> THEN FALSE
    ELSE IF Head(pattern) = "_" THEN Like(Tail(s), Tail(pattern))
    ELSE LowerCh(Head(s)) = LowerCh(Head(pattern)) /\ Like(Tail(s), Tail(pattern))

\* f"%{text}%"
LikeAnywhere(text) == <<"%">> \o text \o <<"%">>

\* Optional[...]: None, or a value
None == <<>>
Some(x) == <<x>>

\* The WHERE clause search_recipes builds
SearchWhere(row, text, categories, max_time, difficulty) ==
    /\ text # Empty =>
          \/ Like(row.title, LikeAnywhere(text))
          \/ Like(row.description, LikeAnywhere(text))
    /\ (categories # None /\ categories[1] # <<>>) =>
          \A i \in 1..Len(categories[1]) :
              Like(row.categories, LikeAnywhere(categories[1][i]))
    /\ max_time # None => row.time_minutes <= max_time[1]
    /\ difficulty # Empty => row.difficulty = difficulty

\* ORDER BY time_minutes ASC, title ASC
SearchOrdered(rows) ==
    \A i \in 1..(Len(rows) - 1) :
        \/ rows[i].time_minutes < rows[i + 1].time_minutes
        \/ /\ rows[i].time_minutes = rows[i + 1].time_minutes
           /\ ~StrLess(rows[i + 1].title, rows[i].title)

\* ORDER BY title ASC
TitleOrdered(rows) ==
    \A i \in 1..(Len(rows) - 1) : ~StrLess(rows[i + 1].title, rows[i].title)

\* Inputs
TitleArgs == {<<"a">>, <<"A">>, <<"a", "b">>}
RecipeArgs ==
    { [title |-> <<"a">>, description |-> <<>>, time_minutes |-> 1,
       difficulty |-> <<"E">>, categories |-> <<<<"v">>>>],
      [title |-> <<"A">>, description |-> <<"b">>, time_minutes |-> 0,
       difficulty |-> <<"H">>, categories |-> <<>>],
      [title |-> <<"a", "b">>, description |-> <<>>, time_minutes |-> 0,
       difficulty |-> <<"E">>, categories |-> <<<<"v">>, <<"w">>>>],
      [title |-> <<"a">>, description |-> <<"A">>, time_minutes |-> 0,
       difficulty |-> <<"E">>, categories |-> <<<<"w">>>>] }
TitleLists == SeqsUpTo(TitleArgs, MaxTitles)
TextArgs == {<<>>, <<"a">>, <<"B">>, <<"_">>}
CategoryArgs == {None, Some(<<>>), Some(<<<<"v">>>>), Some(<<<<"v">>, <<"W">>>>)}
MaxTimeArgs == {None, Some(0)}
DifficultyArgs == {<<>>, <<"E">>}

InsertRecipe ==
    \E a \in RecipeArgs :
        /\ Len(recipes) < MaxRecipes
        /\ recipes' = insert_recipe(recipes, a.title, a.description, <<>>,
                                    a.time_minutes, a.difficulty, a.categories)
        /\ call' = NoCall
        /\ ret' = <<>>
        /\ UNCHANGED <<pantry, grocery, aiVars, appVars>>

FindRecipesByTitles ==
    \E titles \in TitleLists :
        LET matching == {i \in 1..Len(recipes) :
                            \E k \in 1..Len(titles) : recipes[i].title = titles[k]}
        IN  \E o \in Orderings(matching) :
                /\ call' = [op |-> "find_recipes_by_titles", titles |-> titles]
                /\ ret' = find_recipes_by_titles([i \in DOMAIN o |-> recipes[o[i]]], titles)
                /\ UNCHANGED <<pantry, grocery, recipes, aiVars, appVars>>

SearchRecipes ==
    \E text \in TextArgs, categories \in CategoryArgs, max_time \in MaxTimeArgs,
       difficulty \in DifficultyArgs :
        LET matching == {i \in 1..Len(recipes) :
                            SearchWhere(recipes[i], text, categories, max_time, difficulty)}
        IN  \E o \in Orderings(matching) :
                LET rows == [i \in DOMAIN o |-> recipes[o[i]]]
                IN  /\ SearchOrdered(rows)
                    /\ call' = [op |-> "search_recipes", text |-> text,
                                categories |-> categories, max_time |-> max_time,
                                difficulty |-> difficulty]
                    /\ ret' = [i \in DOMAIN rows |-> from_row(rows[i])]
                    /\ UNCHANGED <<pantry, grocery, recipes, aiVars, appVars>>

RecipesInit == DaoInit /\ AiIdle

RecipesNext ==
    \/ InsertRecipe
    \/ FindRecipesByTitles
    \/ SearchRecipes

SpecRecipes == RecipesInit /\ [][RecipesNext]_vars

(***************************************************************************)
(* C2: find_recipes_by_titles returns one stored recipe per input title    *)
(* that equals a stored title, in the order of the input list, skipping    *)
(* the titles that match nothing, whatever the order in which the store    *)
(* delivers the rows.                                                      *)
(***************************************************************************)
C2_Stored == {recipes[i].title : i \in 1..Len(recipes)}

C2_FindKeepsInputOrder ==
    call.op = "find_recipes_by_titles" =>
        LET expected == SelectSeq(call.titles, LAMBDA t : t \in C2_Stored)
        IN  /\ Len(ret) = Len(expected)
            /\ \A i \in 1..Len(ret) :
                  /\ ret[i].title = expected[i]
                  /\ \E k \in 1..Len(recipes) : ret[i] = from_row(recipes[k])

\* Three titles of which the first matches nothing and the other two are
\* asked for in the reverse of their storage order
C2_Witness ==
    /\ call.op = "find_recipes_by_titles"
    /\ Len(call.titles) = 3
    /\ call.titles[1] \notin C2_Stored
    /\ Len(ret) = 2
    /\ ret[1].id > ret[2].id

(***************************************************************************)
(* C4: search_recipes returns exactly the stored recipes that satisfy      *)
(* every supplied filter (text occurs as a substring of title or           *)
(* description, each requested category occurs as a substring of the       *)
(* stored comma-joined categories, time_minutes <= max_time, difficulty    *)
(* equal), ordered by time then title; an empty or None filter restricts   *)
(* nothing.  Substrings are compared without regard to letter case, the    *)
(* store's default for LIKE.                                               *)
(***************************************************************************)
C4_Occurs(t, s) == Contains(Lower(s), Lower(t))

C4_Satisfies(row) ==
    /\ call.text # Empty =>
          C4_Occurs(call.text, row.title) \/ C4_Occurs(call.text, row.description)
    /\ (call.categories # None /\ call.categories[1] # <<>>) =>
          \A i \in 1..Len(call.categories[1]) :
              C4_Occurs(call.categories[1][i], row.categories)
    /\ call.max_time # None => row.time_minutes <= call.max_time[1]
    /\ call.difficulty # Empty => row.difficulty = call.difficulty

C4_SearchExactlyTheMatches ==
    call.op = "search_recipes" =>
        LET matches == {k \in 1..Len(recipes) : C4_Satisfies(recipes[k])}
        IN  /\ {ret[i] : i \in 1..Len(ret)} = {from_row(recipes[k]) : k \in matches}
            /\ Len(ret) = Cardinality(matches)
            /\ SearchOrdered(ret)

(***************************************************************************)
(* The parse ladder of GeminiService._generate_json.request_json           *)
(*                                                                         *)
(* A response text is a sequence of lexical tokens: "{", "}", ",", "k" (a  *)
(* quoted key with its colon), "v" (a scalar value), " " and "\n",         *)
(* "fence" (the three backquotes of a code fence), "json" / "JSON" (the    *)
(* fence's info word) and "p" (a word of prose).                           *)
(***************************************************************************)

MaxBody == 4

IsSpace(c) == c = " " \/ c = "\n"

\* The first position at or after i that holds no whitespace
RECURSIVE SkipSpace(_, _)
SkipSpace(t, i) ==
    IF i <= Len(t) /\ IsSpace(t[i]) THEN SkipSpace(t, i + 1) ELSE i

\* json.loads as a recogniser: the position after the JSON value that starts
\* at i, or 0 when none does
RECURSIVE JsonValue(_, _)
RECURSIVE JsonMembers(_, _, _)
JsonValue(t, i) ==
    IF i > Len(t) THEN 0
    ELSE IF t[i] = "v" THEN i + 1
    ELSE IF t[i] = "{" THEN JsonMembers(t, SkipSpace(t, i + 1), TRUE)
    ELSE 0

JsonMembers(t, i, first) ==
    IF i > Len(t) THEN 0
    ELSE IF first /\ t[i] = "}" THEN i + 1
    ELSE IF t[i] = "k"
         THEN LET e == JsonValue(t, SkipSpace(t, i + 1))
                  n == SkipSpace(t, e)
              IN  IF e = 0 \/ n > Len(t) THEN 0
                  ELSE IF t[n] = "}" THEN n + 1
                  ELSE IF t[n] = "," THEN JsonMembers(t, SkipSpace(t, n + 1), FALSE)
                  ELSE 0
    ELSE 0

\* json.loads(t) succeeds
JsonValid(t) ==
    LET e == JsonValue(t, SkipSpace(t, 1))
    IN  e # 0 /\ SkipSpace(t, e) = Len(t) + 1

\* json.loads(t): the value, which is the text without its whitespace
JsonLoads(t) == SelectSeq(t, LAMBDA c : ~IsSpace(c))

\* re.sub(r"^```(?:json)?\s*|```$", "", txt, flags=IGNORECASE | MULTILINE):
\* a fence at the start of a line goes with its info word json and the
\* whitespace after it, a fence at the end of a line goes alone; prev is the
\* token before t in the text ("\n" at its start)
RECURSIVE SubFences(_, _)
SubFences(t, prev) ==
    IF t = <<>> THEN <<>>
    ELSE IF Head(t) = "fence" /\ prev = "\n"
         THEN LET r1 == Tail(t)
                  r2 == IF r1 # <<>> /\ Head(r1) \in {"json", "JSON"} THEN Tail(r1) ELSE r1
                  n  == SkipSpace(r2, 1)
                  r3 == SubSeq(r2, n, Len(r2))
                  eaten == SubSeq(t, 1, Len(t) - Len(r3))
              IN  SubFences(r3, eaten[Len(eaten)])
    ELSE IF Head(t) = "fence" /\ (Len(t) = 1 \/ t[2] = "\n")
         THEN SubFences(Tail(t), Head(t))
    ELSE <<Head(t)>> \o SubFences(Tail(t), Head(t))

\* str.strip() on tokens
RECURSIVE StripSpace(_)
StripSpace(t) ==
    IF t = <<>> THEN t
    ELSE IF IsSpace(Head(t)) THEN StripSpace(Tail(t))
    ELSE IF IsSpace(t[Len(t)]) THEN StripSpace(SubSeq(t, 1, Len(t) - 1))
    ELSE t

\* str.find("{") and str.rfind("}"), 0 for not found
Find(t, c) ==
    IF \E i \in 1..Len(t) : t[i] = c
    THEN CHOOSE i \in 1..Len(t) : t[i] = c /\ \A j \in 1..(i - 1) : t[j] # c
    ELSE 0
RFind(t, c) ==
    IF \E i \in 1..Len(t) : t[i] = c
    THEN CHOOSE i \in 1..Len(t) : t[i] = c /\ \A j \in (i + 1)..Len(t) : t[j] # c
    ELSE 0

Parsed(stage, value) == [state |-> "parsed", stage |-> stage, value |-> value]
ParseError == [state |-> "error"]

\* A plausible slip: the fence-stripped stage is left out
ParseLadderNoFenceStage(text) ==
    LET txt == StripSpace(IF text = <<>> THEN <<"{", "}">> ELSE text)
    IN  IF JsonValid(txt) THEN Parsed(1, JsonLoads(txt))
        ELSE LET start == Find(txt, "{")
                 end   == RFind(txt, "}")
             IN  IF start # 0 /\ end # 0 /\ end > start
                 THEN IF JsonValid(SubSeq(txt, start, end))
                      THEN Parsed(3, JsonLoads(SubSeq(txt, start, end)))
                      ELSE ParseError
                 ELSE ParseError

\* request_json from response.text on: direct parse, fence-stripped parse,
\* first "{" to last "}"
ParseLadder(text) ==
    LET txt == StripSpace(IF text = <<>> THEN <<"{", "}">> ELSE text)
    IN  IF JsonValid(txt) THEN Parsed(1, JsonLoads(txt))
        ELSE LET cleaned == StripSpace(SubFences(txt, "\n"))
             IN  IF JsonValid(cleaned) THEN Parsed(2, JsonLoads(cleaned))
                 ELSE LET start == Find(cleaned, "{")
                          end   == RFind(cleaned, "}")
                      IN  IF start # 0 /\ end # 0 /\ end > start
                          THEN IF JsonValid(SubSeq(cleaned, start, end))
                               THEN Parsed(3, JsonLoads(SubSeq(cleaned, start, end)))
                               ELSE ParseError
                          ELSE ParseError

\* Inputs: what may stand before and after the body of a response
FencePrefixes == {<<"fence", "\n">>, <<"fence", "json", "\n">>, <<"fence", "JSON", " ", "\n">>}
FenceSuffixes == {<<"\n", "fence">>, <<"\n", "fence", "\n">>}
ProsePrefixes == {<<"p", " ">>, <<"p", "\n">>, <<"p", "{", "p", "}", " ">>}
ProseSuffixes == {<<" ", "p">>, <<" ", "p", "}">>}
Bodies ==
    SeqsUpTo({"{", "}", "k", "v"}, MaxBody)
        \cup {<<"{", "k", "v", ",", " ", "k", "v", "}">>, <<"{", "\n", "k", " ", "v", "\n", "}">>}
Responses ==
    {[prefix |-> a, body |-> b, suffix |-> c] :
        a \in {<<>>} \cup FencePrefixes \cup ProsePrefixes,
        b \in Bodies,
        c \in {<<>>} \cup FenceSuffixes \cup ProseSuffixes}

ResponseText(r) == r.prefix \o r.body \o r.suffix

RequestJsonParse ==
    /\ parsed.state = "none"
    /\ parsed' = ParseLadder(ResponseText(resp))
    /\ UNCHANGED <<resp, daoVars, svcVars, chatVars, sugVars, appVars>>

JsonInit ==
    /\ DaoInit /\ SvcIdle /\ ChatIdle /\ SugIdle /\ AppIdle
    /\ resp \in Responses
    /\ parsed = [state |-> "none"]

JsonNext == RequestJsonParse

SpecJson == JsonInit /\ [][JsonNext]_vars

(***************************************************************************)
(* C5: the ladder tries the direct parse, the fence-stripped parse and the *)
(* first-"{"-to-last-"}" extraction in that order and stops at the first   *)
(* that parses; valid JSON wrapped in a Markdown code fence yields the     *)
(* same object as the unwrapped JSON; a JSON object preceded and/or        *)
(* followed by prose yields that object.                                   *)
(***************************************************************************)
C5_IsObject(b) == JsonValid(b) /\ b # <<>> /\ Head(StripSpace(b)) = "{"

C5_Fenced == resp.prefix \in FencePrefixes /\ resp.suffix \in FenceSuffixes

C5_InProse ==
    /\ resp.prefix \in {<<>>} \cup ProsePrefixes
    /\ resp.suffix \in {<<>>} \cup ProseSuffixes
    /\ resp.prefix # <<>> \/ resp.suffix # <<>>

C5_LadderOrder ==
    parsed.state = "parsed" =>
        /\ parsed.stage > 1 => ~JsonValid(StripSpace(ResponseText(resp)))
        /\ parsed.stage > 2 =>
              ~JsonValid(StripSpace(SubFences(StripSpace(ResponseText(resp)), "\n")))

C5_FencedSameObject ==
    (parsed.state # "none" /\ C5_Fenced /\ JsonValid(resp.body)) =>
        /\ parsed.state = "parsed"
        /\ parsed = [ParseLadder(resp.body) EXCEPT !.stage = parsed.stage]
        /\ parsed.value = JsonLoads(resp.body)

C5_ProseYieldsObject ==
    (parsed.state # "none" /\ C5_InProse /\ C5_IsObject(resp.body)) =>
        /\ parsed.state = "parsed"
        /\ parsed.value = JsonLoads(resp.body)

C5_ParseLadder == C5_LadderOrder /\ C5_FencedSameObject /\ C5_ProseYieldsObject

(***************************************************************************)
(* GeminiService: one call of a request operation                          *)
(*                                                                         *)
(* svc.pc is the position of the call: "json" before the first             *)
(* request_json, "json_retry" before the one after a switch, "plain"       *)
(* before the request without the JSON mime type, "text" and "text_retry"  *)
(* before the requests of substitutions_for_recipe and answer. The         *)
(* counters of svc count, within the call, the generate_content requests,  *)
(* the model switches, the requests issued again after a switch and the    *)
(* failures that _is_not_found recognises.                                 *)
(***************************************************************************)

_FALLBACK_MODELS ==
    <<"gemini-1.5-flash-latest", "gemini-1.5-flash-002",
      "gemini-1.5-flash-8b", "gemini-1.5-pro-002">>

FallbackNames == {_FALLBACK_MODELS[i] : i \in 1..Len(_FALLBACK_MODELS)}

\* An exception, as far as the code looks at it: where it came from and
\* whether its message holds "NotFound", "404" or "not found"
Error(source, not_found) == [source |-> source, not_found |-> not_found]

_is_not_found(e) == e.not_found

\* The exception e as raised by the n-th request of a call
RaisedBy(e, n) == [source |-> e.source, not_found |-> e.not_found, request |-> n]

\* str(e), as far as the model tells messages apart: two exceptions of the
\* same source that both hold a not-found marker, or both hold none, count
\* as having the same text
ErrorText(e) == <<e.source, e.not_found>>

\* What generate_content may raise: the model is not available, or anything
\* else (network, quota, blocked response)
ServiceErrors == {Error("service", TRUE), Error("service", FALSE)}

\* What json.loads may raise: its message names a position in the text,
\* whose digits can spell 404
ParseErrors == {Error("parse", TRUE), Error("parse", FALSE)}

\* A plausible slip: the fallbacks are gone through in turn, the one after
\* the current model first
_try_switch_model_in_turn(current, constructible) ==
    LET at == IF \E i \in 1..Len(_FALLBACK_MODELS) : _FALLBACK_MODELS[i] = current
              THEN CHOOSE i \in 1..Len(_FALLBACK_MODELS) : _FALLBACK_MODELS[i] = current
              ELSE 0
        ok == {i \in 1..Len(_FALLBACK_MODELS) :
                  /\ i > at
                  /\ _FALLBACK_MODELS[i] \in constructible}
    IN  IF ok = {} THEN <<>>
        ELSE <<_FALLBACK_MODELS[CHOOSE i \in ok : \A j \in ok : i <= j]>>

\* _try_switch_model: the first fallback other than the current model whose
\* handle can be built (constructible: the names for which it can), or
\* None when there is none
_try_switch_model(current, constructible) ==
    LET ok == {i \in 1..Len(_FALLBACK_MODELS) :
                  /\ _FALLBACK_MODELS[i] # current
                  /\ _FALLBACK_MODELS[i] \in constructible}
    IN  IF ok = {} THEN None
        ELSE Some(_FALLBACK_MODELS[CHOOSE i \in ok : \A j \in ok : i <= j])

\* The service's answers to a JSON request: an object, the object in a code
\* fence, prose, nothing
ServiceResponses ==
    {[prefix |-> <<>>, body |-> <<"{", "k", "v", "}">>, suffix |-> <<>>],
     [prefix |-> <<"fence", "json", "\n">>, body |-> <<"{", "}">>, suffix |-> <<"\n", "fence">>],
     [prefix |-> <<"p", " ">>, body |-> <<>>, suffix |-> <<>>],
     [prefix |-> <<>>, body |-> <<>>, suffix |-> <<>>]}

\* response.text of a request without the JSON mime type
ServiceTexts == {<<>>, <<"p">>, <<"p", "\n", "p">>}

Returned(value) == [state |-> "returned", value |-> value]
Raised(e) == [state |-> "raised", error |-> e]

\* The except branch of the first request of a call: switch once and go to
\* the retry when the failure is a not-found one and a fallback can be
\* built, else go on without a retry
AfterFirstFailure(s, current, e, constructible, retry_pc, else_pc) ==
    LET failed == [s EXCEPT !.not_found = @ + (IF _is_not_found(e) THEN 1 ELSE 0),
                            !.first = Some(RaisedBy(e, s.requests))]
        switched == IF _is_not_found(e)
                    THEN _try_switch_model(current, constructible) ELSE None
    IN  IF switched # None
        THEN [svc |-> [failed EXCEPT !.pc = retry_pc, !.switches = @ + 1],
              model_name |-> switched[1]]
        ELSE [svc |-> [failed EXCEPT !.pc = else_pc], model_name |-> current]

\* A plausible slip: the retry's failure is handled like the first one
AfterRetryFailureSwitchingAgain(s, current, e, constructible, retry_pc, else_pc) ==
    AfterFirstFailure(s, current, e, constructible, retry_pc, else_pc)

\* The except branch of the retry: no switch, no further retry
AfterRetryFailure(s, current, e, constructible, retry_pc, else_pc) ==
    [svc |-> [s EXCEPT !.pc = else_pc,
                       !.not_found = @ + (IF _is_not_found(e) THEN 1 ELSE 0)],
     model_name |-> current]

\* What one request_json comes to: the parsed value, or the exception of the
\* request or of the ladder's last json.loads
RequestJsonOutcomes ==
    ({ParseLadder(ResponseText(r)) : r \in ServiceResponses} \ {ParseError})
        \cup {Raised(e) : e \in ServiceErrors}
        \cup {Raised(e) : e \in {x \in ParseErrors :
                  \E r \in ServiceResponses : ParseLadder(ResponseText(r)) = ParseError}}

\* str.splitlines on tokens
RECURSIVE SplitLines(_)
SplitLines(t) ==
    IF t = <<>> THEN <<>>
    ELSE LET n == Find(t, "\n")
         IN  IF n = 0 THEN <<t>>
             ELSE <<SubSeq(t, 1, n - 1)>> \o SplitLines(SubSeq(t, n + 1, Len(t)))

\* l.strip(" -*\t") on tokens: "-" is a bullet, " " a blank
RECURSIVE StripBullets(_)
StripBullets(l) ==
    IF l = <<>> THEN l
    ELSE IF Head(l) \in {" ", "-"} THEN StripBullets(Tail(l))
    ELSE IF l[Len(l)] \in {" ", "-"} THEN StripBullets(SubSeq(l, 1, Len(l) - 1))
    ELSE l

\* The lines substitutions_for_recipe returns for a response text: the
\* non-blank lines without their bullets, those with a letter, the first 20
SubstitutionLines(text) ==
    LET nonblank == SelectSeq(SplitLines(text), LAMBDA l : StripSpace(l) # <<>>)
        lines == [i \in 1..Len(nonblank) |-> StripBullets(nonblank[i])]
        lettered == SelectSeq(lines, LAMBDA l : \E i \in 1..Len(l) : l[i] = "p")
    IN  SubSeq(lettered, 1, IF Len(lettered) < 20 THEN Len(lettered) ELSE 20)

\* What a text operation returns for response.text
TextResult(op, text) ==
    IF op = "substitutions_for_recipe" THEN SubstitutionLines(text) ELSE text

\* A plausible slip: the text is always wrapped under "text"
FallbackMappingUnderText(fallback_key, text) == [key |-> "text", text |-> text]

\* {fallback_key: response.text or ""}
FallbackMapping(fallback_key, text) == [key |-> fallback_key, text |-> text]

CallDone == svc.pc \in {"idle", "returned", "raised"}

\* A request operation is called; fallback_key is _generate_json's
StartCall ==
    /\ CallDone
    /\ \E op \in {"_generate_json", "substitutions_for_recipe", "answer"} :
       \E key \in (IF op = "_generate_json" THEN {"text", "raw"} ELSE {""}) :
          svc' = [op |-> op, key |-> key,
                  pc |-> IF op = "_generate_json" THEN "json" ELSE "text",
                  switches |-> 0, requests |-> 0, retries |-> 0, not_found |-> 0,
              first |-> None, plain |-> None]
    /\ svc_result' = [state |-> "none"]
    /\ UNCHANGED <<model_name, daoVars, jsonVars, chatVars, sugVars, appVars>>

\* _generate_json: the first request_json and its except branch; buildable
\* holds the sets of names whose handle genai.GenerativeModel may build
RequestJsonFirstGiven(buildable) ==
    /\ svc.pc = "json"
    /\ \E out \in RequestJsonOutcomes, constructible \in buildable :
          LET s == [svc EXCEPT !.requests = @ + 1]
          IN  IF out.state = "parsed"
              THEN /\ svc' = [s EXCEPT !.pc = "returned"]
                   /\ svc_result' = Returned(out.value)
                   /\ UNCHANGED model_name
              ELSE LET n == AfterFirstFailure(s, model_name, out.error,
                                              constructible, "json_retry", "plain")
                   IN  /\ svc' = n.svc
                       /\ model_name' = n.model_name
                       /\ UNCHANGED svc_result
    /\ UNCHANGED <<daoVars, jsonVars, chatVars, sugVars, appVars>>

RequestJsonFirst == RequestJsonFirstGiven(SUBSET FallbackNames)

\* _generate_json: the request_json after the switch and its except branch
RequestJsonRetry ==
    /\ svc.pc = "json_retry"
    /\ \E out \in RequestJsonOutcomes, constructible \in SUBSET FallbackNames :
          LET s == [svc EXCEPT !.requests = @ + 1, !.retries = @ + 1]
          IN  IF out.state = "parsed"
              THEN /\ svc' = [s EXCEPT !.pc = "returned"]
                   /\ svc_result' = Returned(out.value)
                   /\ UNCHANGED model_name
              ELSE LET n == AfterRetryFailure(s, model_name, out.error,
                                              constructible, "json_retry", "plain")
                   IN  /\ svc' = n.svc
                       /\ model_name' = n.model_name
                       /\ UNCHANGED svc_result
    /\ UNCHANGED <<daoVars, jsonVars, chatVars, sugVars, appVars>>

\* _generate_json: the request without the JSON mime type, a single attempt
RequestPlain ==
    /\ svc.pc = "plain"
    /\ LET s == [svc EXCEPT !.requests = @ + 1]
       IN  \/ \E text \in ServiceTexts :
                 /\ svc' = [s EXCEPT !.pc = "returned", !.plain = Some(text)]
                 /\ svc_result' = Returned(FallbackMapping(svc.key, text))
           \/ \E e3 \in ServiceErrors :
                 /\ svc' = [s EXCEPT !.pc = "raised",
                                     !.not_found = @ + (IF _is_not_found(e3) THEN 1 ELSE 0)]
                 /\ svc_result' = Raised(RaisedBy(e3, s.requests))
    /\ UNCHANGED <<model_name, daoVars, jsonVars, chatVars, sugVars, appVars>>

\* substitutions_for_recipe, answer: the first request and its except branch
RequestTextFirstGiven(buildable) ==
    /\ svc.pc = "text"
    /\ LET s == [svc EXCEPT !.requests = @ + 1]
       IN  \/ \E text \in ServiceTexts :
                 /\ svc' = [s EXCEPT !.pc = "returned"]
                 /\ svc_result' = Returned(TextResult(svc.op, text))
                 /\ UNCHANGED model_name
           \/ \E e \in ServiceErrors, constructible \in buildable :
                 LET n == AfterFirstFailure(s, model_name, e, constructible,
                                            "text_retry", "raised")
                 IN  /\ svc' = n.svc
                     /\ model_name' = n.model_name
                     /\ svc_result' = IF n.svc.pc = "raised"
                                      THEN Raised(RaisedBy(e, s.requests))
                                      ELSE svc_result
    /\ UNCHANGED <<daoVars, jsonVars, chatVars, sugVars, appVars>>

RequestTextFirst == RequestTextFirstGiven(SUBSET FallbackNames)

\* substitutions_for_recipe, answer: the request after the switch, whose
\* exception leaves the operation
RequestTextRetry ==
    /\ svc.pc = "text_retry"
    /\ LET s == [svc EXCEPT !.requests = @ + 1, !.retries = @ + 1]
       IN  \/ \E text \in ServiceTexts :
                 /\ svc' = [s EXCEPT !.pc = "returned"]
                 /\ svc_result' = Returned(TextResult(svc.op, text))
                 /\ UNCHANGED model_name
           \/ \E e \in ServiceErrors, constructible \in SUBSET FallbackNames :
                 LET n == AfterRetryFailure(s, model_name, e, constructible,
                                            "text_retry", "raised")
                 IN  /\ svc' = n.svc
                     /\ model_name' = n.model_name
                     /\ svc_result' = Raised(RaisedBy(e, s.requests))
    /\ UNCHANGED <<daoVars, jsonVars, chatVars, sugVars, appVars>>

\* GeminiService.__init__: the configured model, or the first fallback that
\* can be built when the configured one is not found
SvcInit ==
    /\ model_name \in {ConfiguredModel} \cup FallbackNames
    /\ svc = [op |-> "none", key |-> "", pc |-> "idle", switches |-> 0,
              requests |-> 0, retries |-> 0, not_found |-> 0,
              first |-> None, plain |-> None]
    /\ svc_result = [state |-> "none"]

GeminiInit == DaoInit /\ JsonIdle /\ ChatIdle /\ SugIdle /\ AppIdle /\ SvcInit

GeminiNext ==
    \/ StartCall
    \/ RequestJsonFirst
    \/ RequestJsonRetry
    \/ RequestPlain
    \/ RequestTextFirst
    \/ RequestTextRetry

SpecGemini == GeminiInit /\ [][GeminiNext]_vars

(***************************************************************************)
(* C6: in every single call of a GeminiService request operation           *)
(* (_generate_json, substitutions_for_recipe, answer) the model is         *)
(* switched to a fallback at most once and the failed request is retried   *)
(* at most once after that switch; a second model-unavailable failure in   *)
(* the same call never triggers another switch.                            *)
(***************************************************************************)
C6_SwitchOnceRetryOnce ==
    /\ svc.switches <= 1
    /\ svc.retries <= svc.switches
    /\ svc.requests <= (IF svc.op = "_generate_json" THEN 3 ELSE 2)
    /\ svc.not_found >= 2 => svc.switches <= 1

\* A call that switched, failed not-found again and is over
C6_Witness ==
    /\ svc.pc \in {"returned", "raised"}
    /\ svc.switches = 1
    /\ svc.retries = 1
    /\ svc.not_found >= 2

(***************************************************************************)
(* GeminiChat.send                                                         *)
(*                                                                         *)
(* chat.history counts the exchanges held by the chat handle. chat_call is *)
(* the send under way: "first" before the first send_message, "fallback"   *)
(* before the iteration of the fallback loop for name number next; sends   *)
(* and switches count the send_message requests and the assignments of     *)
(* self.model within the send, error holds the first request's exception,  *)
(* before the exchanges the handle held when the send began.               *)
(***************************************************************************)

MaxHistory == 3

\* The names the fallback loop of send goes through
ChatFallbacks ==
    <<"gemini-1.5-flash-latest", "gemini-1.5-flash-002",
      "gemini-1.5-flash-8b", "gemini-1.5-pro-002">>

\* resp.text or ""
ChatTexts == {<<>>, <<"p">>}

SendDone == chat_call.pc \in {"idle", "returned", "raised"}

\* send(message) is called
StartSend ==
    /\ SendDone
    /\ chat.history < MaxHistory
    /\ chat_call' = [pc |-> "first", sends |-> 0, switches |-> 0, next |-> 0,
                     error |-> None, before |-> chat.history]
    /\ chat_result' = [state |-> "none"]
    /\ UNCHANGED <<chat, daoVars, jsonVars, svcVars, sugVars, appVars>>

\* The first send_message and its except branch
SendFirst ==
    /\ chat_call.pc = "first"
    /\ LET c == [chat_call EXCEPT !.sends = @ + 1]
       IN  \/ \E text \in ChatTexts :
                 /\ chat' = [chat EXCEPT !.history = @ + 1]
                 /\ chat_call' = [c EXCEPT !.pc = "returned"]
                 /\ chat_result' = Returned(text)
           \/ \E e \in ServiceErrors :
                 /\ UNCHANGED chat
                 /\ IF e.not_found
                    THEN /\ chat_call' = [c EXCEPT !.pc = "fallback", !.next = 1,
                                                   !.error = Some(RaisedBy(e, c.sends))]
                         /\ UNCHANGED chat_result
                    ELSE /\ chat_call' = [c EXCEPT !.pc = "raised",
                                                   !.error = Some(RaisedBy(e, c.sends))]
                         /\ chat_result' = Raised(RaisedBy(e, c.sends))
    /\ UNCHANGED <<daoVars, jsonVars, svcVars, sugVars, appVars>>

\* The iteration's except branch: continue with the next name, or leave the
\* loop by its else branch, which raises the first request's exception again
ContinueLoop(c) ==
    IF c.next < Len(ChatFallbacks)
    THEN /\ chat_call' = [c EXCEPT !.next = @ + 1]
         /\ UNCHANGED chat_result
    ELSE /\ chat_call' = [c EXCEPT !.pc = "raised"]
         /\ chat_result' = Raised(c.error[1])

\* A plausible slip: the new chat is started with the old handle's history
start_chat_with_history(name) == [model |-> name, history |-> chat.history]

\* self.model = model; self.chat = model.start_chat(history=[])
start_chat(name) == [model |-> name, history |-> 0]

\* One iteration of the fallback loop: build the model, start a chat with an
\* empty history, send the message again
SendFallback ==
    /\ chat_call.pc = "fallback"
    /\ \/ \* genai.GenerativeModel(name) raises
          /\ UNCHANGED chat
          /\ ContinueLoop(chat_call)
       \/ \* the model is built and the message sent
          LET c == [chat_call EXCEPT !.sends = @ + 1, !.switches = @ + 1]
              fresh == start_chat(ChatFallbacks[chat_call.next])
          IN  \/ \E text \in ChatTexts :
                    /\ chat' = [fresh EXCEPT !.history = 1]
                    /\ chat_call' = [c EXCEPT !.pc = "returned"]
                    /\ chat_result' = Returned(text)
              \/ /\ chat' = fresh
                 /\ ContinueLoop(c)
    /\ UNCHANGED <<daoVars, jsonVars, svcVars, sugVars, appVars>>

\* GeminiChat.__init__: the configured model or a fallback, an empty history
ChatInit ==
    /\ chat \in [model : {ConfiguredModel} \cup FallbackNames, history : {0}]
    /\ chat_call = [pc |-> "idle", sends |-> 0, switches |-> 0, next |-> 0,
                    error |-> None, before |-> 0]
    /\ chat_result = [state |-> "none"]

ChatSpecInit == DaoInit /\ JsonIdle /\ SvcIdle /\ SugIdle /\ AppIdle /\ ChatInit

ChatNext ==
    \/ StartSend
    \/ SendFirst
    \/ SendFallback

SpecChat == ChatSpecInit /\ [][ChatNext]_vars

(***************************************************************************)
(* C7: GeminiChat.send applies the same retry-once policy per message:     *)
(* when the send fails because the model is unavailable, the chat switches *)
(* to a fallback model at most once and re-sends the message at most once, *)
(* so one send issues at most two send_message requests.                   *)
(***************************************************************************)
C7_SendRetriesOnce ==
    /\ chat_call.switches <= 1
    /\ chat_call.sends <= 2

(***************************************************************************)
(* GeminiService.suggest_from_ingredients: validate/normalize              *)
(*                                                                         *)
(* A JSON value as json.loads builds it is a record with one field, named  *)
(* after its Python type: str (its characters), int, float (the integer    *)
(* part and the digits after the point), bool, null, list (its elements)   *)
(* and obj (its key/value pairs in the order of the text).                 *)
(***************************************************************************)

PyStr(chars) == [str |-> chars]
PyInt(n) == [int |-> n]
PyFloat(whole, frac) == [float |-> <<whole, frac>>]
PyBool(b) == [bool |-> b]
PyNone == [null |-> TRUE]
PyList(elems) == [list |-> elems]
PyDict(pairs) == [obj |-> pairs]

TypeOf(v) == CHOOSE t \in DOMAIN v : TRUE

\* The characters of the keys the model uses
KeyChars(k) ==
    CASE k = "name" -> <<"n", "a", "m", "e">>
      [] k = "quantity" -> <<"q", "u", "a", "n", "t", "i", "t", "y">>
      [] k = "title" -> <<"t", "i", "t", "l", "e">>
      [] k = "steps" -> <<"s", "t", "e", "p", "s">>
      [] k = "raw" -> <<"r", "a", "w">>
      [] OTHER -> <<"x">>

\* dict.get(key, default): the value of the last pair with that key
DictGet(pairs, key, default) ==
    LET at == {i \in 1..Len(pairs) : pairs[i][1] = key}
    IN  IF at = {} THEN default
        ELSE pairs[CHOOSE i \in at : \A j \in at : j <= i][2]

DigitChars == <<"0", "1", "2", "3", "4", "5", "6", "7", "8", "9">>

\* str(n) of an integer
RECURSIVE Digits(_)
Digits(n) ==
    IF n < 0 THEN <<"-">> \o Digits(-n)
    ELSE IF n < 10 THEN <<DigitChars[n + 1]>>
    ELSE Digits(n \div 10) \o <<DigitChars[(n % 10) + 1]>>

\* str(v); a string inside a list or a dict is shown in quotes
RECURSIVE Str(_, _)
RECURSIVE StrAll(_, _)
Str(v, quoted) ==
    CASE TypeOf(v) = "str" -> IF quoted THEN <<"'">> \o v.str \o <<"'">> ELSE v.str
      [] TypeOf(v) = "int" -> Digits(v.int)
      [] TypeOf(v) = "float" -> Digits(v.float[1]) \o <<".">> \o v.float[2]
      [] TypeOf(v) = "bool" -> IF v.bool THEN <<"T", "r", "u", "e">>
                               ELSE <<"F", "a", "l", "s", "e">>
      [] TypeOf(v) = "null" -> <<"N", "o", "n", "e">>
      [] TypeOf(v) = "list" -> <<"[">> \o StrAll(v.list, FALSE) \o <<"]">>
      [] TypeOf(v) = "obj" -> <<"{">> \o StrAll(v.obj, TRUE) \o <<"}">>

\* The elements of a list, or the pairs of a dict, shown and joined by ", "
StrAll(elems, pairs) ==
    IF elems = <<>> THEN <<>>
    ELSE LET one == IF pairs
                    THEN <<"'">> \o KeyChars(Head(elems)[1]) \o <<"'", ":", " ">>
                             \o Str(Head(elems)[2], TRUE)
                    ELSE Str(Head(elems), TRUE)
         IN  IF Len(elems) = 1 THEN one
             ELSE one \o <<",", " ">> \o StrAll(Tail(elems), pairs)

\* s[:n]
Take(s, n) == SubSeq(s, 1, IF Len(s) < n THEN Len(s) ELSE n)

\* What `for x in v` goes through: the elements of a list, the characters of
\* a string, the keys of a dict; None when v is not iterable (TypeError)
Iterate(v) ==
    CASE TypeOf(v) = "list" -> Some(v.list)
      [] TypeOf(v) = "str" -> Some([i \in 1..Len(v.str) |-> PyStr(<<v.str[i]>>)])
      [] TypeOf(v) = "obj" ->
            Some([i \in 1..Len(v.obj) |-> PyStr(KeyChars(v.obj[i][1]))])
      [] OTHER -> None

\* bool(v) is False
Falsy(v) ==
    CASE TypeOf(v) = "null" -> TRUE
      [] TypeOf(v) = "bool" -> ~v.bool
      [] TypeOf(v) = "int" -> v.int = 0
      [] TypeOf(v) = "float" -> v.float[1] = 0 /\ \A i \in 1..Len(v.float[2]) : v.float[2][i] = "0"
      [] TypeOf(v) = "str" -> v.str = <<>>
      [] TypeOf(v) = "list" -> v.list = <<>>
      [] TypeOf(v) = "obj" -> v.obj = <<>>

IsDigit(c) == \E d \in 1..10 : DigitChars[d] = c

\* The number a sequence of digits spells
RECURSIVE DigitsValue(_)
DigitsValue(s) ==
    IF s = <<>> THEN 0
    ELSE 10 * DigitsValue(SubSeq(s, 1, Len(s) - 1))
            + (CHOOSE d \in 0..9 : DigitChars[d + 1] = s[Len(s)])

\* int(s) of a string: blanks around, a sign, digits; None for ValueError
IntOfStr(chars) ==
    LET t == Strip(chars)
        signed == t # <<>> /\ Head(t) \in {"-", "+"}
        digits == IF signed THEN Tail(t) ELSE t
    IN  IF digits # <<>> /\ \A i \in 1..Len(digits) : IsDigit(digits[i])
        THEN Some(IF signed /\ Head(t) = "-" THEN -DigitsValue(digits)
                  ELSE DigitsValue(digits))
        ELSE None

\* int(v): None when it raises (TypeError, ValueError)
ToInt(v) ==
    CASE TypeOf(v) = "int" -> Some(v.int)
      [] TypeOf(v) = "float" -> Some(v.float[1])
      [] TypeOf(v) = "bool" -> Some(IF v.bool THEN 1 ELSE 0)
      [] TypeOf(v) = "str" -> IntOfStr(v.str)
      [] OTHER -> None

\* The caps of the normalization
MatchTitlesCap == 20
IdeasCap == 10
TitleCap == 120
DescriptionCap == 2000
IngredientFieldCap == 120
StepsCap == 30
DifficultyCap == 20
CategoriesCap == 10
SubstitutionsCap == 20

\* [str(x) for x in v]; None when v is not iterable
StrEach(v) ==
    LET xs == Iterate(v)
    IN  IF xs = None THEN None
        ELSE Some([i \in 1..Len(xs[1]) |-> Str(xs[1][i], FALSE)])

\* The ingredients of an idea: the entries whose name is not blank, name and
\* quantity cut; None when an entry has no get
IdeaIngredients(v) ==
    LET xs == Iterate(v)
    IN  IF xs = None \/ \E i \in 1..Len(xs[1]) : TypeOf(xs[1][i]) # "obj" THEN None
        ELSE LET named == SelectSeq(xs[1], LAMBDA i :
                              Strip(Str(DictGet(i.obj, "name", PyStr(<<>>)), FALSE)) # <<>>)
             IN  Some([k \in 1..Len(named) |->
                     [name |-> Take(Str(DictGet(named[k].obj, "name", PyStr(<<>>)), FALSE),
                                    IngredientFieldCap),
                      quantity |-> Take(Str(DictGet(named[k].obj, "quantity", PyStr(<<>>)), FALSE),
                                        IngredientFieldCap)]])

\* The body of the try: the normalized idea, or None when it raises
NormalizeIdea(idea) ==
    IF TypeOf(idea) # "obj" THEN None
    ELSE LET d == idea.obj
             ingredients == IdeaIngredients(DictGet(d, "ingredients", PyList(<<>>)))
             steps == StrEach(DictGet(d, "steps", PyList(<<>>)))
             minutes == DictGet(d, "time_minutes", PyInt(0))
             time_minutes == ToInt(IF Falsy(minutes) THEN PyInt(0) ELSE minutes)
             categories == StrEach(DictGet(d, "categories", PyList(<<>>)))
         IN  IF \/ ingredients = None \/ steps = None
                \/ time_minutes = None \/ categories = None
             THEN None
             ELSE Some([
                 title |-> Take(Str(DictGet(d, "title", PyStr(<<"A", "I", " ", "I", "d", "e", "a">>)), FALSE),
                                TitleCap),
                 description |-> Take(Str(DictGet(d, "description", PyStr(<<>>)), FALSE),
                                      DescriptionCap),
                 ingredients |-> ingredients[1],
                 steps |-> Take(steps[1], StepsCap),
                 time_minutes |-> time_minutes[1],
                 difficulty |-> Take(Str(DictGet(d, "difficulty", PyStr(<<"E", "a", "s", "y">>)), FALSE),
                                     DifficultyCap),
                 categories |-> Take(categories[1], CategoriesCap)])

\* A plausible slip: the first idea that raises ends the loop
RECURSIVE IdeasLoopStoppingAtFailure(_)
IdeasLoopStoppingAtFailure(entries) ==
    IF entries = <<>> THEN <<>>
    ELSE LET idea == NormalizeIdea(Head(entries))
         IN  IF idea = None THEN <<>>
             ELSE idea \o IdeasLoopStoppingAtFailure(Tail(entries))

\* for idea in ideas_raw[:10]: try ... except Exception: continue
RECURSIVE IdeasLoop(_)
IdeasLoop(entries) ==
    IF entries = <<>> THEN <<>>
    ELSE NormalizeIdea(Head(entries)) \o IdeasLoop(Tail(entries))

\* ideas_raw[:10]: a list or a string can be sliced, None for TypeError
SliceIdeas(ideas_raw) ==
    CASE TypeOf(ideas_raw) = "list" -> Some(Take(ideas_raw.list, IdeasCap))
      [] TypeOf(ideas_raw) = "str" ->
            Some(Take([i \in 1..Len(ideas_raw.str) |-> PyStr(<<ideas_raw.str[i]>>)], IdeasCap))
      [] OTHER -> None

\* A plausible slip: a cap is left out
NormalizeWithoutTitlesCap(d) ==
    LET match_titles == StrEach(DictGet(d, "match_titles", PyList(<<>>)))
        ideas_raw == SliceIdeas(DictGet(d, "ideas", PyList(<<>>)))
        substitutions == StrEach(DictGet(d, "substitutions", PyList(<<>>)))
    IN  IF match_titles = None \/ ideas_raw = None \/ substitutions = None
        THEN Raised(Error("suggest_from_ingredients", FALSE))
        ELSE Returned([match_titles |-> match_titles[1],
                       ideas |-> IdeasLoop(ideas_raw[1]),
                       substitutions |-> Take(substitutions[1], SubstitutionsCap)])

\* Validate/normalize of suggest_from_ingredients on the dict d
Normalize(d) ==
    LET match_titles == StrEach(DictGet(d, "match_titles", PyList(<<>>)))
        ideas_raw == SliceIdeas(DictGet(d, "ideas", PyList(<<>>)))
        substitutions == StrEach(DictGet(d, "substitutions", PyList(<<>>)))
    IN  IF match_titles = None \/ ideas_raw = None \/ substitutions = None
        THEN Raised(Error("suggest_from_ingredients", FALSE))
        ELSE Returned([match_titles |-> Take(match_titles[1], MatchTitlesCap),
                       ideas |-> IdeasLoop(ideas_raw[1]),
                       substitutions |-> Take(substitutions[1], SubstitutionsCap)])

\* Inputs: the length of the heterogeneous part of an ideas array
MaxPrefix == 2

\* A text of n characters, n copies of a value
Text(n) == [i \in 1..n |-> "a"]
Copies(n, v) == [i \in 1..n |-> v]

\* A well-formed idea
PlainIdea ==
    PyDict(<< <<"title", PyStr(<<"b">>)>>,
              <<"description", PyStr(<<"a", " ", "b">>)>>,
              <<"ingredients", PyList(<<PyDict(<< <<"name", PyStr(<<"a">>)>>,
                                                  <<"quantity", PyStr(<<"1">>)>> >>)>>)>>,
              <<"steps", PyList(<<PyStr(<<"a">>), PyStr(<<"b">>)>>)>>,
              <<"time_minutes", PyInt(15)>>,
              <<"difficulty", PyStr(<<"E", "a", "s", "y">>)>>,
              <<"categories", PyList(<<PyStr(<<"a">>)>>)>> >>)

\* A well-formed idea with every field one over its cap
LongIdea ==
    PyDict(<< <<"title", PyStr(Text(TitleCap + 1))>>,
              <<"description", PyStr(Text(DescriptionCap + 1))>>,
              <<"ingredients", PyList(<<PyDict(<<
                    <<"name", PyStr(Text(IngredientFieldCap + 1))>>,
                    <<"quantity", PyStr(Text(IngredientFieldCap + 1))>> >>)>>)>>,
              <<"steps", PyList(Copies(StepsCap + 1, PyStr(<<"a">>)))>>,
              <<"time_minutes", PyStr(<<" ", "1", "2">>)>>,
              <<"difficulty", PyStr(Text(DifficultyCap + 1))>>,
              <<"categories", PyList(Copies(CategoriesCap + 1, PyStr(<<"a">>)))>> >>)

\* The entries an ideas array is made of
IdeaArgs ==
    {PlainIdea, LongIdea,
     PyDict(<<>>),
     PyStr(<<"a">>),
     PyNone,
     PyDict(<< <<"title", PyInt(7)>>, <<"time_minutes", PyNone>> >>),
     PyDict(<< <<"title", PyList(<<PyStr(<<"a">>), PyInt(1)>>)>>,
               <<"time_minutes", PyFloat(3, <<"5">>)>> >>),
     PyDict(<< <<"title", PyStr(<<"a">>)>>,
               <<"time_minutes", PyStr(<<"a", "b">>)>> >>),
     PyDict(<< <<"ingredients", PyNone>> >>),
     PyDict(<< <<"ingredients", PyList(<<PyStr(<<"a">>)>>)>> >>),
     PyDict(<< <<"ingredients", PyList(<<
                   PyDict(<< <<"name", PyStr(<<" ">>)>>, <<"quantity", PyStr(<<"1">>)>> >>),
                   PyDict(<< <<"name", PyInt(5)>> >>)>>)>> >>),
     PyDict(<< <<"steps", PyInt(5)>> >>),
     PyDict(<< <<"steps", PyStr(<<"a", "b">>)>>,
               <<"categories", PyDict(<< <<"x", PyInt(1)>> >>)>> >>)}

\* The ideas arrays: a heterogeneous part, then copies of the plain idea,
\* then possibly one more entry
IdeaArrays ==
    {a \o Copies(n, PlainIdea) \o z :
        a \in SeqsUpTo(IdeaArgs, MaxPrefix),
        n \in {0, IdeasCap},
        z \in {<<>>, <<PyNone>>, <<LongIdea>>}}

\* What _generate_json may hand to the normalization: objects with ideas,
\* objects whose arrays are of other types, the wrapped plain text, and
\* JSON values that are no object
SuggestData ==
    {PyDict(<< <<"ideas", PyList(ideas)>> >> \o rest) :
        ideas \in IdeaArrays,
        rest \in {<<>>,
                  << <<"match_titles", PyList(Copies(MatchTitlesCap + 1, PyStr(<<"a">>)))>>,
                     <<"substitutions", PyList(Copies(SubstitutionsCap + 1, PyStr(<<"b">>)))>> >>}}
    \cup
    {PyDict(mt \o ideas \o subs) :
        mt \in {<<>>} \cup {<< <<"match_titles", v>> >> :
                   v \in {PyStr(<<"a", "b">>), PyNone, PyInt(3),
                          PyDict(<< <<"x", PyInt(1)>> >>),
                          PyList(<<PyInt(1), PyNone, PyStr(<<"a">>)>>)}},
        ideas \in {<<>>} \cup {<< <<"ideas", v>> >> :
                   v \in {PyStr(<<"a", "b">>), PyNone, PyDict(<<>>)}},
        subs \in {<<>>} \cup {<< <<"substitutions", v>> >> :
                   v \in {PyNone, PyList(<<PyStr(<<"a">>)>>)}}}
    \cup {PyDict(<< <<"raw", PyStr(<<"a", " ", "b">>)>> >>), PyList(<<>>), PyNone}

\* suggest_from_ingredients from the return of _generate_json on: data.get
\* raises on anything but a dict
SuggestFromIngredients ==
    /\ suggestion.state = "none"
    /\ suggestion' = IF TypeOf(data) = "obj" THEN Normalize(data.obj)
                     ELSE Raised(Error("suggest_from_ingredients", FALSE))
    /\ UNCHANGED <<data, daoVars, jsonVars, svcVars, chatVars, appVars>>

SuggestInit ==
    /\ DaoInit /\ JsonIdle /\ SvcIdle /\ ChatIdle /\ AppIdle
    /\ data \in SuggestData
    /\ suggestion = [state |-> "none"]

SuggestNext == SuggestFromIngredients

SpecSuggest == SuggestInit /\ [][SuggestNext]_vars

(***************************************************************************)
(* C8: for every parsed response object, the result of                     *)
(* suggest_from_ingredients is size-bounded: at most 20 match_titles, at   *)
(* most 10 ideas (taken from the first 10 entries only) and at most 20     *)
(* substitutions; in every idea title <= 120 chars, description <= 2000,   *)
(* each ingredient name and quantity <= 120, difficulty <= 20, at most 30  *)
(* steps and at most 10 categories.                                        *)
(***************************************************************************)
C8_FirstTen ==
    LET ideas_raw == DictGet(data.obj, "ideas", PyList(<<>>))
        entries == IF TypeOf(ideas_raw) = "list" THEN ideas_raw.list
                   ELSE [i \in 1..Len(ideas_raw.str) |-> PyStr(<<ideas_raw.str[i]>>)]
    IN  SubSeq(entries, 1, IF Len(entries) < 10 THEN Len(entries) ELSE 10)

C8_IdeaBounded(idea) ==
    /\ Len(idea.title) <= 120
    /\ Len(idea.description) <= 2000
    /\ \A k \in 1..Len(idea.ingredients) :
          /\ Len(idea.ingredients[k].name) <= 120
          /\ Len(idea.ingredients[k].quantity) <= 120
    /\ Len(idea.difficulty) <= 20
    /\ Len(idea.steps) <= 30
    /\ Len(idea.categories) <= 10

C8_SizeBounded ==
    (TypeOf(data) = "obj" /\ suggestion.state = "returned") =>
        LET result == suggestion.value
        IN  /\ Len(result.match_titles) <= 20
            /\ Len(result.ideas) <= 10
            /\ Len(result.substitutions) <= 20
            /\ \A k \in 1..Len(result.ideas) :
                  /\ C8_IdeaBounded(result.ideas[k])
                  /\ \E i \in 1..Len(C8_FirstTen) :
                        NormalizeIdea(C8_FirstTen[i]) = Some(result.ideas[k])

\* A response with more than 20 titles, 20 substitutions and 10 ideas, one
\* of them over every cap, whose result sits exactly at the caps
C8_Witness ==
    /\ TypeOf(data) = "obj"
    /\ suggestion.state = "returned"
    /\ \A key \in {"match_titles", "substitutions", "ideas"} :
          TypeOf(DictGet(data.obj, key, PyList(<<>>))) = "list"
    /\ Len(DictGet(data.obj, "match_titles", PyList(<<>>)).list) > 20
    /\ Len(DictGet(data.obj, "substitutions", PyList(<<>>)).list) > 20
    /\ Len(DictGet(data.obj, "ideas", PyList(<<>>)).list) > 10
    /\ Len(suggestion.value.match_titles) = 20
    /\ Len(suggestion.value.substitutions) = 20
    /\ Len(suggestion.value.ideas) = 10
    /\ \E k \in 1..10 :
          LET idea == suggestion.value.ideas[k]
          IN  /\ Len(idea.title) = 120
              /\ Len(idea.description) = 2000
              /\ idea.ingredients # <<>>
              /\ Len(idea.ingredients[1].name) = 120
              /\ Len(idea.ingredients[1].quantity) = 120
              /\ Len(idea.difficulty) = 20
              /\ Len(idea.steps) = 30
              /\ Len(idea.categories) = 10

(***************************************************************************)
(* C9: idea normalization fails per idea, never per batch: an entry among  *)
(* the first 10 of ideas whose shape makes field access or conversion fail *)
(* is dropped, every well-formed sibling entry is still returned           *)
(* normalized and in its original relative order, and                      *)
(* suggest_from_ingredients does not raise because of that entry.          *)
(***************************************************************************)
\* The response is an object whose ideas can be sliced and whose other two
\* arrays can be iterated: nothing but an idea can make the call raise
C9_OnlyIdeasInQuestion ==
    /\ TypeOf(data) = "obj"
    /\ TypeOf(DictGet(data.obj, "ideas", PyList(<<>>))) \in {"list", "str"}
    /\ TypeOf(DictGet(data.obj, "match_titles", PyList(<<>>))) \in {"list", "str", "obj"}
    /\ TypeOf(DictGet(data.obj, "substitutions", PyList(<<>>))) \in {"list", "str", "obj"}

\* The positions among the first 10 entries whose normalization succeeds
C9_WellFormed == {i \in 1..Len(C8_FirstTen) : NormalizeIdea(C8_FirstTen[i]) # None}

C9_FailsPerIdea ==
    (C9_OnlyIdeasInQuestion /\ suggestion.state # "none") =>
        /\ suggestion.state = "returned"
        /\ Len(suggestion.value.ideas) = Cardinality(C9_WellFormed)
        /\ \A i \in C9_WellFormed :
              suggestion.value.ideas[Cardinality({j \in C9_WellFormed : j <= i})]
                  = NormalizeIdea(C8_FirstTen[i])[1]

\* A failing entry between two well-formed ones, and the call returned
C9_Witness ==
    /\ C9_OnlyIdeasInQuestion
    /\ suggestion.state = "returned"
    /\ \E i \in 1..Len(C8_FirstTen) :
          /\ i \notin C9_WellFormed
          /\ \E h, j \in C9_WellFormed : h < i /\ i < j
    /\ Len(suggestion.value.ideas) >= 2

(***************************************************************************)
(* RecipeListPage._on_suggest.on_result: the suggestion is shown, or the   *)
(* local matches when it holds neither a known recipe nor an idea          *)
(*                                                                         *)
(* self.recipes is what list_recipes returned when the page was loaded;    *)
(* the model takes it from the table as it is.                             *)
(***************************************************************************)

MaxKnown == 2
MaxTerms == 2
LocalCap == 12

\* SELECT * FROM recipes ORDER BY title ASC. The order of rows of one title
\* is the store's choice: by rowid, upwards or downwards
RECURSIVE OrderByTitle(_, _, _)
OrderByTitle(rows, idx, downwards) ==
    IF idx = {} THEN <<>>
    ELSE LET first == CHOOSE i \in idx : \A j \in idx \ {i} :
                          \/ StrLess(rows[i].title, rows[j].title)
                          \/ /\ rows[i].title = rows[j].title
                             /\ IF downwards THEN i > j ELSE i < j
         IN  <<rows[first]>> \o OrderByTitle(rows, idx \ {first}, downwards)

list_recipes(rows, downwards) ==
    LET ordered == OrderByTitle(rows, DOMAIN rows, downwards)
    IN  [i \in DOMAIN ordered |-> from_row(ordered[i])]

\* The score of recipe r: the terms found in one of its ingredient names
LocalScore(r, terms) ==
    LET names == [i \in 1..Len(r.ingredients) |->
                     Lower(Get(r.ingredients[i], "name", Empty))]
    IN  Cardinality({k \in 1..Len(terms) :
            /\ terms[k] # Empty
            /\ \E i \in 1..Len(names) : Contains(names[i], terms[k])})

\* A plausible slip: the titles are compared as they are
LocalKeyLessByTitle(x, y) ==
    \/ x.score > y.score
    \/ x.score = y.score /\ StrLess(x.recipe.title, y.recipe.title)

\* The sort key (-score, title.lower()) of x is less than that of y
LocalKeyLess(x, y) ==
    \/ x.score > y.score
    \/ x.score = y.score /\ StrLess(Lower(x.recipe.title), Lower(y.recipe.title))

\* list.sort(key=...): stable, the first of the least entries comes first
RECURSIVE LocalSort(_)
LocalSort(scored) ==
    IF scored = <<>> THEN <<>>
    ELSE LET first == CHOOSE i \in 1..Len(scored) :
                          /\ \A j \in 1..Len(scored) : ~LocalKeyLess(scored[j], scored[i])
                          /\ \A j \in 1..(i - 1) : LocalKeyLess(scored[i], scored[j])
         IN  <<scored[first]>>
                 \o LocalSort(SubSeq(scored, 1, first - 1)
                                 \o SubSeq(scored, first + 1, Len(scored)))

\* The local matching fallback: score, keep score > 0, sort, the first 12
LocalMatches(known, ings) ==
    LET terms == [k \in 1..Len(ings) |-> Lower(ings[k])]
        all == [i \in 1..Len(known) |->
                   [score |-> LocalScore(known[i], terms), recipe |-> known[i]]]
        scored == LocalSort(SelectSeq(all, LAMBDA x : x.score > 0))
    IN  [i \in 1..(IF Len(scored) < LocalCap THEN Len(scored) ELSE LocalCap) |->
            scored[i].recipe]

\* Recipe(...) of a normalized idea
RecipeOfIdea(idea) ==
    [title |-> idea.title, description |-> idea.description,
     ingredients |-> idea.ingredients, time_minutes |-> idea.time_minutes,
     difficulty |-> idea.difficulty, categories |-> idea.categories]

\* The card of the raw text
RawTextRecipe(raw_text) ==
    [title |-> <<"A", "I", " ", "S", "u", "g", "g", "e", "s", "t", "i", "o", "n">>,
     description |-> raw_text, ingredients |-> <<>>, time_minutes |-> 0,
     difficulty |-> <<>>, categories |-> <<>>]

\* What on_result shows
Shown(view, matches, ideas) == [view |-> view, matches |-> matches, ideas |-> ideas]

\* Inputs: the recipes of the table, the terms, the suggestions
LocalRecipeArgs ==
    { [title |-> <<"B">>, ingredients |-> <<[name |-> <<"a">>, quantity |-> <<"1">>]>>],
      [title |-> <<"d">>, ingredients |-> <<[name |-> <<"A">>, quantity |-> <<"1">>],
                                            [name |-> <<"x", "c">>, quantity |-> <<>>]>>],
      [title |-> <<"a">>, ingredients |-> <<[name |-> <<"a", "b">>, quantity |-> <<>>]>>],
      [title |-> <<"B">>, ingredients |-> <<[quantity |-> <<"1">>]>>] }

\* The k-th of the recipes that fill the table: its title starts with "a"
\* for odd k and with "c" for even k, its one ingredient is "c"
FillerRecipe(k) ==
    [title |-> [i \in 1..(k + 1) |-> IF k % 2 = 1 THEN "a" ELSE "c"],
     ingredients |-> <<[name |-> <<"c">>, quantity |-> <<"1">>]>>]

\* The table after inserting the recipes of args one by one
RECURSIVE InsertAll(_)
InsertAll(args) ==
    IF args = <<>> THEN <<>>
    ELSE LET a == args[Len(args)]
         IN  insert_recipe(InsertAll(SubSeq(args, 1, Len(args) - 1)), a.title, <<>>,
                           a.ingredients, 0, <<>>, <<>>)

LocalTables ==
    {InsertAll(a \o [k \in 1..n |-> FillerRecipe(k)]) :
        a \in SeqsUpTo(LocalRecipeArgs, MaxKnown), n \in {0, LocalCap}}

IngsArgs == SeqsUpTo({<<"a">>, <<"B">>, <<"c">>}, MaxTerms) \ {<<>>}

OnResultData ==
    { [match_titles |-> <<>>, ideas |-> <<>>, substitutions |-> <<>>],
      [match_titles |-> <<<<"B">>, <<"b">>>>, ideas |-> <<>>, substitutions |-> <<>>],
      [match_titles |-> <<>>, substitutions |-> <<>>,
       ideas |-> <<[title |-> <<"b">>, description |-> <<>>, ingredients |-> <<>>,
                    steps |-> <<>>, time_minutes |-> 0, difficulty |-> <<"E", "a", "s", "y">>,
                    categories |-> <<>>]>>] }

\* on_result(data) of a suggestion asked for the ingredients ings
OnResult ==
    /\ call = NoCall
    /\ \E ings \in IngsArgs, d \in OnResultData, downwards \in BOOLEAN :
          LET known == list_recipes(recipes, downwards)
              matching == {i \in 1..Len(recipes) :
                              \E k \in 1..Len(d.match_titles) :
                                  recipes[i].title = d.match_titles[k]}
          IN  \E o \in Orderings(matching) :
                 LET matched == find_recipes_by_titles(
                                    [i \in DOMAIN o |-> recipes[o[i]]], d.match_titles)
                     ai_ideas == [i \in 1..Len(d.ideas) |-> RecipeOfIdea(d.ideas[i])]
                     local_matches == LocalMatches(known, ings)
                     raw_text == Strip(Get(d, "raw", Empty))
                 IN  /\ call' = [op |-> "on_result", ings |-> ings, data |-> d,
                                 known |-> known]
                     /\ ret' = IF matched # <<>> \/ ai_ideas # <<>>
                               THEN Shown("suggested", matched, ai_ideas)
                               ELSE IF local_matches # <<>>
                               THEN Shown("local", local_matches, <<>>)
                               ELSE IF raw_text # Empty
                               THEN Shown("suggested", matched, <<RawTextRecipe(raw_text)>>)
                               ELSE Shown("none", matched, ai_ideas)
    /\ UNCHANGED <<pantry, grocery, recipes, aiVars, appVars>>

LocalInit ==
    /\ pantry = {}
    /\ grocery = {}
    /\ recipes \in LocalTables
    /\ call = NoCall
    /\ ret = <<>>
    /\ AiIdle

LocalNext == OnResult

SpecLocal == LocalInit /\ [][LocalNext]_vars

(***************************************************************************)
(* C10: local fallback matching scores each known recipe by the number of  *)
(* user ingredient terms that occur as a case-insensitive substring of at  *)
(* least one of its ingredient names, keeps only recipes with score > 0,   *)
(* orders them by descending score and, among equal scores, by ascending   *)
(* lowercased title (recipes whose lowercased titles are equal keep the    *)
(* order of the known recipes), and returns at most the first 12; hence a  *)
(* recipe matching two terms is always ranked above a recipe matching one. *)
(***************************************************************************)
C10_Score(r) ==
    Cardinality({k \in 1..Len(call.ings) :
        \E i \in 1..Len(r.ingredients) :
            /\ "name" \in DOMAIN r.ingredients[i]
            /\ Contains(Lower(r.ingredients[i].name), Lower(call.ings[k]))})

\* The place of a recipe among the known recipes
C10_Place(r) == CHOOSE i \in 1..Len(call.known) : call.known[i].id = r.id

\* The local matches are the at most 12 first of the known recipes with a
\* positive score, in the order of descending score and then of Before
C10_Ranking(Before(_, _)) ==
    LET matches == ret.matches
        positive == {i \in 1..Len(call.known) : C10_Score(call.known[i]) > 0}
        NotAfter(r, q) ==
            \/ C10_Score(r) > C10_Score(q)
            \/ C10_Score(r) = C10_Score(q) /\ ~Before(q, r)
    IN  /\ \A k \in 1..Len(matches) :
              \E i \in positive : call.known[i] = matches[k]
        /\ \A j, k \in 1..Len(matches) : j < k => matches[j].id # matches[k].id
        /\ Len(matches) = (IF Cardinality(positive) < 12 THEN Cardinality(positive) ELSE 12)
        /\ \A j, k \in 1..Len(matches) : j < k => NotAfter(matches[j], matches[k])
        /\ \A i \in positive :
              (\A k \in 1..Len(matches) : matches[k].id # call.known[i].id) =>
                  \A k \in 1..Len(matches) : NotAfter(matches[k], call.known[i])
        /\ \A j, k \in 1..Len(matches) :
              (C10_Score(matches[j]) >= 2 /\ C10_Score(matches[k]) = 1) => j < k

C10_LowercasedBefore(r, q) ==
    \/ StrLess(Lower(r.title), Lower(q.title))
    \/ Lower(r.title) = Lower(q.title) /\ C10_Place(r) < C10_Place(q)

C10_LocalMatches ==
    (call.op = "on_result" /\ ret.view = "local") => C10_Ranking(C10_LowercasedBefore)

\* More than 12 recipes match; the one matching two terms comes first, and
\* among those matching one a title in lower case comes before "B"
C10_Witness ==
    /\ call.op = "on_result"
    /\ ret.view = "local"
    /\ Cardinality({i \in 1..Len(call.known) : C10_Score(call.known[i]) > 0}) > 12
    /\ Len(ret.matches) = 12
    /\ C10_Score(ret.matches[1]) = 2
    /\ \E k \in 2..11 :
          /\ C10_Score(ret.matches[k]) = 1
          /\ C10_Score(ret.matches[k + 1]) = 1
          /\ StrLess(ret.matches[k + 1].title, ret.matches[k].title)

\* The claim as stated: among equal scores by ascending title
C10_TitleBefore(r, q) == StrLess(r.title, q.title)

C10_AsStated ==
    (call.op = "on_result" /\ ret.view = "local") => C10_Ranking(C10_TitleBefore)

(***************************************************************************)
(* Favorites                                                               *)
(*                                                                         *)
(* The table favorites(recipe_id) holds a recipe id at most once: its      *)
(* schema makes a second INSERT of an id fail.                             *)
(***************************************************************************)

MaxFavorites == 3

RecipeIdArgs == 1..MaxFavorites

\* The schema's constraint on favorites: the statement would store id twice
FavoritesConflict(rows, recipe_id) == \E i \in 1..Len(rows) : rows[i] = recipe_id

\* get_favorites: the rows' ids, ordered; a row stored twice comes twice
RECURSIVE get_favorites(_)
get_favorites(rows) ==
    IF rows = <<>> THEN <<>>
    ELSE LET least == CHOOSE i \in 1..Len(rows) : \A j \in 1..Len(rows) : rows[i] <= rows[j]
         IN  <<rows[least]>>
                 \o get_favorites(SubSeq(rows, 1, least - 1)
                                     \o SubSeq(rows, least + 1, Len(rows)))

\* A plausible slip: the INSERT goes through whatever the table holds
set_favorite_unchecked(rows, recipe_id, favorite) ==
    IF favorite
    THEN [rows |-> Append(rows, recipe_id), raised |-> FALSE]
    ELSE [rows |-> SelectSeq(rows, LAMBDA r : r # recipe_id), raised |-> FALSE]

\* set_favorite: INSERT, its failure swallowed, or DELETE; raised tells
\* whether an exception leaves the call
set_favorite(rows, recipe_id, favorite) ==
    IF favorite
    THEN IF FavoritesConflict(rows, recipe_id)
         THEN [rows |-> rows, raised |-> FALSE]
         ELSE [rows |-> Append(rows, recipe_id), raised |-> FALSE]
    ELSE [rows |-> SelectSeq(rows, LAMBDA r : r # recipe_id), raised |-> FALSE]

\* dao.set_favorite(recipe_id, favorite), observed
SetFavoriteOf(recipe_id, favorite) ==
    LET done == set_favorite(favorites, recipe_id, favorite)
    IN  /\ favorites' = done.rows
        /\ marked' = IF favorite THEN marked \cup {recipe_id}
                     ELSE marked \ {recipe_id}
        /\ call' = [op |-> "set_favorite", recipe_id |-> recipe_id,
                    favorite |-> favorite, pre |-> favorites,
                    raised |-> done.raised]
        /\ ret' = <<>>
        /\ UNCHANGED <<pantry, grocery, recipes, aiVars, notFav>>

SetFavorite ==
    \E recipe_id \in RecipeIdArgs, favorite \in BOOLEAN :
        SetFavoriteOf(recipe_id, favorite)

GetFavorites ==
    /\ call' = [op |-> "get_favorites"]
    /\ ret' = get_favorites(favorites)
    /\ UNCHANGED <<pantry, grocery, recipes, aiVars, appVars>>

FavoritesInit == DaoInit /\ AiIdle

FavoritesNext == SetFavorite \/ GetFavorites

SpecFavorites == FavoritesInit /\ [][FavoritesNext]_vars

(***************************************************************************)
(* C11: after any sequence of set_favorite calls, get_favorites returns    *)
(* the ascending, duplicate-free list of exactly those recipe ids whose    *)
(* most recent set_favorite call had favorite=True; set_favorite(id, True) *)
(* on an already favorited id and set_favorite(id, False) on a             *)
(* non-favorited id change nothing and surface no error.                   *)
(***************************************************************************)
C11_Redundant ==
    /\ call.op = "set_favorite"
    /\ call.favorite <=> \E i \in 1..Len(call.pre) : call.pre[i] = call.recipe_id

C11_Favorites ==
    /\ call.op = "get_favorites" =>
          /\ \A i \in 1..(Len(ret) - 1) : ret[i] < ret[i + 1]
          /\ {ret[i] : i \in 1..Len(ret)} = marked
    /\ C11_Redundant => (favorites = call.pre /\ ~call.raised)

\* Two favorites listed after one was set twice and another taken away
C11_Witness ==
    /\ call.op = "get_favorites"
    /\ Len(ret) = 2
    /\ favorites # ret
    /\ marked # RecipeIdArgs

(***************************************************************************)
(* Worker.run                                                              *)
(*                                                                         *)
(* run_in_thread wraps a function of the AI services in a Worker; run      *)
(* calls it and emits result or error, then finished. The wrapped          *)
(* function's own steps are those of GeminiService and GeminiChat above.   *)
(***************************************************************************)

WorkerFns == {"suggest_from_ingredients", "substitutions_for_recipe", "answer", "send"}

\* The call of GeminiService that the wrapped function starts with
CallStarted(fn) ==
    [op |-> IF fn = "suggest_from_ingredients" THEN "_generate_json" ELSE fn,
     key |-> IF fn = "suggest_from_ingredients" THEN "raw" ELSE "",
     pc |-> IF fn = "suggest_from_ingredients" THEN "json" ELSE "text",
     switches |-> 0, requests |-> 0, retries |-> 0, not_found |-> 0,
              first |-> None, plain |-> None]

\* The wrapped function is over
FnDone(fn) == IF fn = "send" THEN chat_call.pc \in {"returned", "raised"}
              ELSE svc.pc \in {"returned", "raised"}

\* How the wrapped function can end: as its service call ended; after
\* _generate_json returned, suggest_from_ingredients returns its normalized
\* suggestion or raises on a response of the wrong shape
FnOutcomes(fn) ==
    IF fn = "send" THEN {chat_result}
    ELSE IF fn = "suggest_from_ingredients" /\ svc_result.state = "returned"
    THEN {Returned([suggestion |-> svc_result.value]),
          Raised(RaisedBy(Error("suggest_from_ingredients", FALSE), 0))}
    ELSE {svc_result}

\* A plausible slip: what the function raised is emitted as its result
run_emit_always_result(outcome) ==
    [signal |-> "result",
     value |-> IF outcome.state = "returned" THEN outcome.value ELSE outcome.error]

\* The signal of the try/except of run: result.emit(res) or error.emit(str(e))
run_emit(outcome) ==
    IF outcome.state = "returned"
    THEN [signal |-> "result", value |-> outcome.value]
    ELSE [signal |-> "error", text |-> ErrorText(outcome.error)]

\* run_in_thread(fn, ...): a new Worker
RunInThread ==
    /\ worker.pc \in {"none", "done"}
    /\ \E fn \in WorkerFns :
          worker' = [pc |-> "created", fn |-> fn, outcome |-> [state |-> "none"]]
    /\ signals' = <<>>
    /\ UNCHANGED <<daoVars, aiVars, notWorker>>

\* thread.start(): run calls the wrapped function
WorkerRun ==
    /\ worker.pc = "created"
    /\ worker' = [worker EXCEPT !.pc = "called"]
    /\ IF worker.fn = "send"
       THEN /\ chat.history < MaxHistory
            /\ chat_call' = [pc |-> "first", sends |-> 0, switches |-> 0, next |-> 0,
                             error |-> None, before |-> chat.history]
            /\ chat_result' = [state |-> "none"]
            /\ UNCHANGED <<chat, svcVars>>
       ELSE /\ svc' = CallStarted(worker.fn)
            /\ svc_result' = [state |-> "none"]
            /\ UNCHANGED <<model_name, chatVars>>
    /\ UNCHANGED <<signals, daoVars, jsonVars, sugVars, notWorker>>

\* The wrapped function is over: result or error is emitted
WorkerEmit ==
    /\ worker.pc = "called"
    /\ FnDone(worker.fn)
    /\ \E outcome \in FnOutcomes(worker.fn) :
          /\ worker' = [worker EXCEPT !.pc = "emitted", !.outcome = outcome]
          /\ signals' = Append(signals, run_emit(outcome))
    /\ UNCHANGED <<daoVars, aiVars, notWorker>>

\* finally: finished.emit()
WorkerFinished ==
    /\ worker.pc = "emitted"
    /\ worker' = [worker EXCEPT !.pc = "done"]
    /\ signals' = Append(signals, [signal |-> "finished"])
    /\ UNCHANGED <<daoVars, aiVars, notWorker>>

WorkerInit == DaoInit /\ JsonIdle /\ SugIdle /\ AppIdle /\ SvcInit /\ ChatInit

WorkerNext ==
    \/ RunInThread
    \/ WorkerRun
    \/ RequestJsonFirst
    \/ RequestJsonRetry
    \/ RequestPlain
    \/ RequestTextFirst
    \/ RequestTextRetry
    \/ SendFirst
    \/ SendFallback
    \/ WorkerEmit
    \/ WorkerFinished

SpecWorker == WorkerInit /\ [][WorkerNext]_vars

(***************************************************************************)
(* C12: every Worker.run delivers exactly one of result or error (result   *)
(* iff the wrapped function returned, error carrying the exception text    *)
(* iff it raised) and then exactly one finished notification, with         *)
(* finished always after the result/error notification.                    *)
(***************************************************************************)
C12_Delivered == {i \in 1..Len(signals) : signals[i].signal \in {"result", "error"}}

C12_Finished == {i \in 1..Len(signals) : signals[i].signal = "finished"}

C12_OneOutcomeThenFinished ==
    /\ Cardinality(C12_Delivered) <= 1
    /\ Cardinality(C12_Finished) <= 1
    /\ \A f \in C12_Finished : \E d \in C12_Delivered : d < f
    /\ worker.pc = "done" => (Cardinality(C12_Delivered) = 1 /\ Cardinality(C12_Finished) = 1)
    /\ \A d \in C12_Delivered :
          IF worker.outcome.state = "returned"
          THEN signals[d] = [signal |-> "result", value |-> worker.outcome.value]
          ELSE /\ worker.outcome.state = "raised"
               /\ signals[d] = [signal |-> "error",
                                text |-> ErrorText(worker.outcome.error)]

\* A run whose function raised after a retry is over
C12_Witness ==
    /\ worker.pc = "done"
    /\ worker.outcome.state = "raised"
    /\ worker.outcome.error.request = 2
    /\ signals = <<[signal |-> "error", text |-> <<"service", FALSE>>],
                   [signal |-> "finished"]>>

(***************************************************************************)
(* C16: when an AI operation finally fails, the exception raised to the    *)
(* caller (and the text emitted by Worker.error) carries the message of    *)
(* the original service error that started the failure, not the message    *)
(* of a later fallback attempt.                                            *)
(***************************************************************************)
\* The first exception of the wrapped function's call, if any
C16_Original(fn) == IF fn = "send" THEN chat_call.error ELSE svc.first

C16_OriginalMessage ==
    \A d \in C12_Delivered :
       LET original == C16_Original(worker.fn)
       IN  (/\ signals[d].signal = "error"
            /\ worker.outcome.error.source = "service"
            /\ original # None
            /\ original[1].source = "service")
           => signals[d].text = ErrorText(original[1])

(***************************************************************************)
(* The busy guard of the AI actions                                        *)
(*                                                                         *)
(* Each handler disables its control, keeps the control's label in a       *)
(* local, sets the busy label and starts a Worker; the handler of the      *)
(* Worker's finished signal enables the control and puts the kept label    *)
(* back. The pages are built with an AI service (gemini is not None).      *)
(***************************************************************************)

MaxJobs == 2
MaxSteps == 2

\* setEnabled(False); old = text(); setText(busy); run_in_thread(...)
Dispatch(a) ==
    /\ buttons' = [buttons EXCEPT ![a] = [enabled |-> FALSE, text |-> BusyLabel(a)]]
    /\ jobs' = Append(jobs, [action |-> a, old |-> buttons[a].text])

\* on_done of a job: setEnabled(True); setText(old)
on_done(job) == [enabled |-> TRUE, text |-> job.old]

\* _render_step: the step index clamped, Previous and Next set; what
\* tip_btn.setEnabled is given is in tip_btn
_render_step(recipe, steps, step_index) ==
    IF ~recipe \/ steps = 0
    THEN [recipe |-> recipe, steps |-> steps, step_index |-> step_index,
          prev_btn |-> FALSE, next_btn |-> FALSE, tip_btn |-> recipe]
    ELSE LET i == IF step_index < 0 THEN 0
                  ELSE IF step_index > steps - 1 THEN steps - 1 ELSE step_index
         IN  [recipe |-> recipe, steps |-> steps, step_index |-> i,
              prev_btn |-> i > 0, next_btn |-> i < steps - 1, tip_btn |-> TRUE]

\* The cooking page after _render_step, and the tip control
Rendered(r) ==
    /\ cooking' = [recipe |-> r.recipe, steps |-> r.steps, step_index |-> r.step_index,
                   prev_btn |-> r.prev_btn, next_btn |-> r.next_btn]
    /\ buttons' = [buttons EXCEPT !["tip"].enabled = r.tip_btn]

\* A click needs an enabled control
Clickable(a) == buttons[a].enabled /\ Len(jobs) < MaxJobs

\* RecipeListPage._on_suggest with at least one ingredient
OnSuggest ==
    /\ Clickable("suggest")
    /\ Dispatch("suggest")
    /\ UNCHANGED <<cooking, chat_present, daoVars, aiVars, notUi>>

\* RecipeDetailPage._on_substitutions with a recipe that misses something
OnSubstitutions ==
    /\ Clickable("substitutions")
    /\ Dispatch("substitutions")
    /\ UNCHANGED <<cooking, chat_present, daoVars, aiVars, notUi>>

\* CookingWidget._ask_tip with a recipe that has steps
AskTip ==
    /\ Clickable("tip")
    /\ cooking.recipe /\ cooking.steps > 0
    /\ Dispatch("tip")
    /\ UNCHANGED <<cooking, chat_present, daoVars, aiVars, notUi>>

\* ChatWidget._send with a chat and some text
Send ==
    /\ Clickable("send")
    /\ chat_present
    /\ Dispatch("send")
    /\ UNCHANGED <<cooking, chat_present, daoVars, aiVars, notUi>>

\* The finished signal of an outstanding call is handled
OnDone ==
    /\ \E i \in 1..Len(jobs) :
          /\ buttons' = [buttons EXCEPT ![jobs[i].action] = on_done(jobs[i])]
          /\ jobs' = SubSeq(jobs, 1, i - 1) \o SubSeq(jobs, i + 1, Len(jobs))
    /\ UNCHANGED <<cooking, chat_present, daoVars, aiVars, notUi>>

\* MainWindow.start_cooking: CookingWidget.set_recipe with the opened recipe
SetRecipe ==
    /\ \E steps \in 0..MaxSteps : Rendered(_render_step(TRUE, steps, 0))
    /\ UNCHANGED <<jobs, chat_present, daoVars, aiVars, notUi>>

\* CookingWidget._prev
_prev ==
    /\ cooking.prev_btn
    /\ Rendered(_render_step(cooking.recipe, cooking.steps, cooking.step_index - 1))
    /\ UNCHANGED <<jobs, chat_present, daoVars, aiVars, notUi>>

\* CookingWidget._next
_next ==
    /\ cooking.next_btn
    /\ Rendered(_render_step(cooking.recipe, cooking.steps, cooking.step_index + 1))
    /\ UNCHANGED <<jobs, chat_present, daoVars, aiVars, notUi>>

\* ChatWidget._reset_chat: a new GeminiChat, or None when it cannot be built
ResetChat ==
    /\ \E built \in BOOLEAN :
          /\ chat_present' = built
          /\ buttons' = [buttons EXCEPT !["send"].enabled = built]
    /\ UNCHANGED <<jobs, cooking, daoVars, aiVars, notUi>>

UiInit ==
    /\ DaoInit /\ JsonIdle /\ SvcIdle /\ ChatIdle /\ SugIdle /\ FavIdle /\ WorkerIdle
    /\ CallsIdle /\ DbIdle
    /\ UiBuilt
    /\ chat_present \in BOOLEAN
    /\ buttons["send"].enabled = chat_present

UiNext ==
    \/ OnSuggest
    \/ OnSubstitutions
    \/ AskTip
    \/ Send
    \/ OnDone
    \/ SetRecipe
    \/ _prev
    \/ _next
    \/ ResetChat

SpecUi == UiInit /\ [][UiNext]_vars

\* The outstanding calls of an action
Outstanding(a) == {i \in 1..Len(jobs) : jobs[i].action = a}

(***************************************************************************)
(* C13: two-state busy guard: for each AI action, from the moment a call   *)
(* is dispatched until its done notification is handled the triggering     *)
(* control stays disabled under every interleaving of other UI events      *)
(* (step navigation, opening another recipe, chat reset), so at most one   *)
(* call per action is outstanding at any time.                             *)
(***************************************************************************)
C13_BusyGuard ==
    \A a \in AiActions :
       /\ Outstanding(a) # {} => ~buttons[a].enabled
       /\ Cardinality(Outstanding(a)) <= 1

(***************************************************************************)
(* C14: on every exit path of an AI call, once all dispatched calls of an  *)
(* action have delivered their done notification, the triggering control   *)
(* is enabled again and shows its idle label (the label it had before any  *)
(* call was dispatched), never a leftover busy label.                      *)
(***************************************************************************)
C14_Restored ==
    [][\A a \in AiActions :
          (Outstanding(a) # {} /\ Outstanding(a)' = {})
          => buttons'[a] = [enabled |-> TRUE, text |-> IdleLabel(a)]]_vars

(***************************************************************************)
(* The threads of the pages and the service objects                        *)
(*                                                                         *)
(* MainWindow builds one GeminiService and hands it to the recipe list,    *)
(* the recipe detail and the cooking page; the chat page builds its own    *)
(* GeminiChat. Each page's call runs in a thread of its own: it reads the  *)
(* model handle of its service at every request, and a fallback switch     *)
(* assigns the handle and the name.                                        *)
(***************************************************************************)

\* The service object a page's call works on
ServiceOf(w) == IF w = "chat_page" THEN "ChatWidget.chat" ELSE "MainWindow.gemini"

\* The mutable attributes of a service object a request reads
HandleOf(w) == <<ServiceOf(w), "model">>

\* The model a page's service holds
ModelOf(w) == IF w = "chat_page" THEN chat.model ELSE model_name

\* The handle and name of a page's service are assigned
ModelAssigned(w, name) ==
    IF w = "chat_page"
    THEN /\ chat' = [chat EXCEPT !.model = name]
         /\ UNCHANGED model_name
    ELSE /\ model_name' = name
         /\ UNCHANGED chat

\* A page dispatches its call: a new thread
ThreadStart(w) ==
    /\ calls[w].pc = "idle"
    /\ calls' = [calls EXCEPT ![w] = [pc |-> "first", used |-> {}, switched |-> FALSE]]
    /\ UNCHANGED <<svcVars, chatVars, daoVars, jsonVars, sugVars, notCalls>>

\* The thread's request on self.model succeeds, or fails for good
ThreadRequest(w) ==
    /\ calls[w].pc \in {"first", "retry"}
    /\ calls' = [calls EXCEPT ![w].pc = "done", ![w].used = @ \cup {HandleOf(w)}]
    /\ UNCHANGED <<svcVars, chatVars, daoVars, jsonVars, sugVars, notCalls>>

\* The thread's first request fails as not found and a fallback is built:
\* self.model and self.model_name are assigned
ThreadSwitch(w) ==
    /\ calls[w].pc = "first"
    /\ \E constructible \in SUBSET FallbackNames :
          LET switched == _try_switch_model(ModelOf(w), constructible)
          IN  /\ switched # None
              /\ ModelAssigned(w, switched[1])
    /\ calls' = [calls EXCEPT ![w].pc = "retry", ![w].used = @ \cup {HandleOf(w)},
                              ![w].switched = TRUE]
    /\ UNCHANGED <<svc, svc_result, chat_call, chat_result, daoVars, jsonVars,
                   sugVars, notCalls>>

\* The page handles the finished signal of its thread
ThreadHandled(w) ==
    /\ calls[w].pc = "done"
    /\ calls' = [calls EXCEPT ![w].pc = "idle"]
    /\ UNCHANGED <<svcVars, chatVars, daoVars, jsonVars, sugVars, notCalls>>

ThreadsInit ==
    /\ DaoInit /\ JsonIdle /\ SugIdle /\ FavIdle /\ WorkerIdle /\ UiIdle /\ CallsIdle
    /\ DbIdle
    /\ SvcInit /\ ChatInit

ThreadsNext ==
    \/ \E w \in Pages : ThreadStart(w)
    \/ \E w \in Pages : ThreadRequest(w)
    \/ \E w \in Pages : ThreadSwitch(w)
    \/ \E w \in Pages : ThreadHandled(w)

SpecThreads == ThreadsInit /\ [][ThreadsNext]_vars

(***************************************************************************)
(* C15: no two AI calls that are outstanding at the same time read or      *)
(* write a common mutable object: in particular the model handle and model *)
(* name that a worker thread may replace during a fallback switch are      *)
(* never shared with another outstanding call started from a different     *)
(* widget.                                                                 *)
(***************************************************************************)
C15_Running(w) == calls[w].pc \in {"first", "retry"}

C15_NoSharedObject ==
    \A w1, w2 \in Pages :
       (w1 # w2 /\ C15_Running(w1) /\ C15_Running(w2))
       => calls[w1].used \cap calls[w2].used = {}

(***************************************************************************)
(* The connections of database.py                                          *)
(*                                                                         *)
(* Every helper runs "with _connect() as conn": the connection's context   *)
(* manager commits or rolls back on exit and does not close. The           *)
(* connection is closed when the interpreter deallocates it, at a time     *)
(* the code does not decide: after a raise the traceback keeps the frame   *)
(* and its connection alive.                                               *)
(***************************************************************************)

MaxConnections == 3

PersistenceCalls == {"execute", "executemany", "execute_returning_id", "query", "query_one"}

\* The connection a helper leaves behind: sqlite3.connect opened it, the
\* with statement's exit did not close it
_connect(fn, outcome) == [fn |-> fn, call |-> outcome, open |-> TRUE]

\* A persistence call, whole: it opens a connection, runs its statement
\* and returns or raises
PersistenceCall ==
    /\ Len(connections) < MaxConnections
    /\ \E fn \in PersistenceCalls, outcome \in {"returned", "raised"} :
          connections' = Append(connections, _connect(fn, outcome))
    /\ UNCHANGED <<daoVars, aiVars, notConnections>>

\* The interpreter deallocates a connection nothing refers to any more
Deallocate ==
    /\ \E i \in 1..Len(connections) :
          /\ connections[i].open
          /\ connections' = [connections EXCEPT ![i].open = FALSE]
    /\ UNCHANGED <<daoVars, aiVars, notConnections>>

ConnectionsInit == DaoInit /\ AiIdle

ConnectionsNext ==
    \/ PersistenceCall
    \/ Deallocate

SpecConnections == ConnectionsInit /\ [][ConnectionsNext]_vars

(***************************************************************************)
(* C17: every persistence call opens a fresh connection and that           *)
(* connection is released (closed) by the time the call returns or raises; *)
(* after any sequence of calls, including failing ones, no connection      *)
(* opened by a completed call is still open.                               *)
(***************************************************************************)
C17_Released ==
    \A i \in 1..Len(connections) :
       connections[i].call \in {"returned", "raised"} => ~connections[i].open

(***************************************************************************)
(* Startup and the library                                                 *)
(*                                                                         *)
(* init_db applies the schema and seeds the recipes; the pages then        *)
(* suggest ideas, save them with insert_recipe and mark favorites. The     *)
(* schema script and the seed file are data of the application, taken      *)
(* here as the specification describes them.                               *)
(***************************************************************************)

MaxStartups == 2
MaxSaved == 1

\* The bundled seed file: its "recipes"
SeedRecipes ==
    << [title |-> <<"a">>, description |-> <<"b">>, time_minutes |-> 10,
        difficulty |-> <<"E">>, categories |-> <<<<"v">>>>],
       [title |-> <<"c">>, description |-> <<>>, time_minutes |-> 0,
        difficulty |-> <<"H">>, categories |-> <<>>] >>

\* conn.executescript(schema): the tables are created when they are not
\* there, and left as they are when they are
ApplySchema(exists, rows) == IF exists THEN rows ELSE <<>>

\* The columns of recipes carry no check: every row is accepted
RecipesAccepts(title, time_minutes) == TRUE

\* A plausible slip: the seed is inserted at every startup
SeedsAtEveryStartup(first_time, count) == TRUE

\* if first_time or count == 0
ShouldSeed(first_time, count) == first_time \/ count = 0

\* The first n seed recipes inserted into rows, one INSERT each
RECURSIVE InsertSeeds(_, _)
InsertSeeds(rows, n) ==
    IF n = 0 THEN rows
    ELSE LET r == SeedRecipes[n]
         IN  insert_recipe(InsertSeeds(rows, n - 1), r.title, r.description, <<>>,
                           r.time_minutes, r.difficulty, r.categories)

\* A plausible slip: the seed's INSERTs form one transaction, undone when
\* one of them raises
init_db_in_one_transaction(exists, rows, seed_present, done) ==
    LET first_time == ~exists
        table == ApplySchema(exists, rows)
        count == Len(table)
    IN  IF ShouldSeed(first_time, count) /\ seed_present
        THEN [rows |-> IF done < Len(SeedRecipes) THEN table ELSE InsertSeeds(table, done),
              raised |-> done < Len(SeedRecipes), inserted |-> done]
        ELSE [rows |-> table, raised |-> FALSE, inserted |-> 0]

\* init_db on the recipes table rows of a file that exists or not, with the
\* seed file there or not; of the seed's INSERTs the first `done` succeed
\* (each is committed on its own: isolation_level=None) and are counted in
\* inserted
init_db(exists, rows, seed_present, done) ==
    LET first_time == ~exists
        table == ApplySchema(exists, rows)
        count == Len(table)
    IN  IF ShouldSeed(first_time, count) /\ seed_present
        THEN [rows |-> InsertSeeds(table, done), raised |-> done < Len(SeedRecipes),
              inserted |-> done]
        ELSE [rows |-> table, raised |-> FALSE, inserted |-> 0]

\* A startup: main calls init_db
InitDb ==
    /\ store.runs < MaxStartups
    /\ \E seed_present \in BOOLEAN, done \in 0..Len(SeedRecipes) :
          LET r == init_db(store.exists, recipes, seed_present, done)
          IN  /\ recipes' = r.rows
              /\ store' = [exists |-> TRUE, runs |-> store.runs + 1,
                           seedings |-> store.seedings
                                        + (IF Len(r.rows) > Len(recipes) THEN 1 ELSE 0),
                           failed |-> store.failed \/ r.raised]
              /\ call' = [op |-> "init_db", seed_present |-> seed_present,
                          raised |-> r.raised, inserted |-> r.inserted,
                          pre |-> [recipes |-> recipes, favorites |-> favorites,
                                   pantry |-> pantry, grocery |-> grocery]]
              /\ ret' = <<>>
    /\ UNCHANGED <<pantry, grocery, aiVars, favVars, notStore>>

\* The answers of the service the ideas are taken from
LibraryData ==
    {PyDict(<< <<"ideas", PyList(<<idea>>)>> >>) :
        idea \in {PlainIdea,
                  PyDict(<< <<"title", PyStr(<<>>)>>, <<"time_minutes", PyInt(0)>> >>),
                  PyDict(<< <<"title", PyStr(<<"b">>)>>, <<"time_minutes", PyInt(0 - 5)>> >>)}}

\* _on_suggest: suggest_from_ingredients on an answer of the service
Suggest ==
    /\ store.exists
    /\ \E d \in LibraryData :
          /\ data' = d
          /\ suggestion' = Normalize(d.obj)
    /\ UNCHANGED <<daoVars, jsonVars, svcVars, chatVars, appVars>>

\* _save_ai_idea on the card of a suggested idea: insert_recipe
SaveAiIdea ==
    /\ store.exists
    /\ suggestion.state = "returned"
    /\ Len(recipes) < Len(SeedRecipes) + MaxSaved
    /\ \E i \in 1..Len(suggestion.value.ideas) :
          LET recipe == RecipeOfIdea(suggestion.value.ideas[i])
          IN  /\ RecipesAccepts(recipe.title, recipe.time_minutes)
              /\ recipes' = insert_recipe(recipes, recipe.title, recipe.description,
                                          recipe.ingredients, recipe.time_minutes,
                                          recipe.difficulty, recipe.categories)
    /\ call' = [op |-> "_save_ai_idea"]
    /\ ret' = <<>>
    /\ UNCHANGED <<pantry, grocery, aiVars, appVars>>

\* Inputs: the recipes opened in the detail page, among the first rows
OpenedArgs == 1..Len(SeedRecipes)

\* _on_toggle_fav on an opened recipe of the table: its favorite state,
\* loaded from get_favorites, is flipped
ToggleFavorite ==
    /\ store.exists
    /\ \E recipe_id \in OpenedArgs \cap (1..Len(recipes)) :
          SetFavoriteOf(recipe_id, ~FavoritesConflict(favorites, recipe_id))

LibraryInit ==
    /\ DaoInit /\ JsonIdle /\ SvcIdle /\ ChatIdle /\ SugIdle
    /\ FavIdle /\ WorkerIdle /\ UiIdle /\ CallsIdle /\ connections = <<>>
    /\ glist = <<>>
    /\ store = [exists |-> FALSE, runs |-> 0, seedings |-> 0, failed |-> FALSE]

LibraryNext ==
    \/ InitDb
    \/ Suggest
    \/ SaveAiIdea
    \/ ToggleFavorite

SpecLibrary == LibraryInit /\ [][LibraryNext]_vars

(***************************************************************************)
(* C18: init_db inserts the seed recipes if and only if the recipe table   *)
(* is empty when it runs: running init_db again on a store that already    *)
(* holds at least one recipe inserts nothing and leaves every table        *)
(* unchanged, so any number of successful startups yields the seed         *)
(* recipes exactly once.                                                   *)
(***************************************************************************)
C18_SeedRows == InsertSeeds(<<>>, Len(SeedRecipes))

\* A successful init_db has just run: it seeded iff the table was empty
C18_SeedsIffEmpty ==
    (call.op = "init_db" /\ ~call.raised) =>
       /\ call.pre.recipes # <<>> =>
             /\ recipes = call.pre.recipes
             /\ favorites = call.pre.favorites
             /\ pantry = call.pre.pantry
             /\ grocery = call.pre.grocery
       /\ (call.pre.recipes = <<>> /\ call.seed_present) => recipes = C18_SeedRows
       /\ (call.pre.recipes = <<>> /\ ~call.seed_present) => recipes = <<>>

\* While every startup succeeded, the seed went in at most once, and once
\* in, its rows are the first of the table, each there once
C18_SeededOnce ==
    ~store.failed =>
       /\ store.seedings <= 1
       /\ store.seedings = 1 =>
             /\ Len(recipes) >= Len(SeedRecipes)
             /\ SubSeq(recipes, 1, Len(SeedRecipes)) = C18_SeedRows

C18_SeedOnce == C18_SeedsIffEmpty /\ C18_SeededOnce

\* A second successful startup on a seeded store with a saved idea and a
\* favorite
C18_Witness ==
    /\ call.op = "init_db" /\ ~call.raised
    /\ store.runs = 2 /\ ~store.failed /\ store.seedings = 1
    /\ Len(recipes) > Len(SeedRecipes)
    /\ favorites # <<>>

(***************************************************************************)
(* C19: every recipe that is persisted, whether by seeding or by saving an *)
(* AI idea through insert_recipe, has a non-empty title and a non-negative *)
(* time_minutes; this holds after any sequence of suggest, save-idea and   *)
(* startup operations.                                                     *)
(***************************************************************************)
C19_ValidRecipes ==
    \A i \in 1..Len(recipes) :
       /\ recipes[i].title # <<>>
       /\ recipes[i].time_minutes >= 0

(***************************************************************************)
(* C20: total parse failure degrades instead of raising: when all three    *)
(* structured parse stages fail on the response text and the follow-up     *)
(* plain-text request succeeds, _generate_json returns a mapping with the  *)
(* single fallback key holding that text and raises nothing.               *)
(***************************************************************************)
\* The call is a _generate_json whose first response failed every parse
C20_ParseFailed ==
    /\ svc.op = "_generate_json"
    /\ svc.first # None
    /\ svc.first[1].source = "parse"

C20_Degrades ==
    C20_ParseFailed =>
       /\ svc.plain # None =>
             /\ svc.pc = "returned"
             /\ svc_result = Returned([key |-> svc.key, text |-> svc.plain[1]])
       /\ svc.pc = "raised" =>
             /\ svc.plain = None
             /\ svc_result.error.source = "service"
             /\ svc_result.error.request = svc.requests

\* The first response failed to parse and the plain request answered
C20_Witness ==
    /\ C20_ParseFailed
    /\ svc.key = "raw"
    /\ svc.requests = 2
    /\ svc.plain = Some(<<"p">>)
    /\ svc_result = Returned([key |-> "raw", text |-> <<"p">>])

(***************************************************************************)
(* C21: a model switch happens only in response to the service reporting   *)
(* the model as not found: a failure of any other kind (network or other   *)
(* service error, or a JSON parse failure of the response text, whatever   *)
(* its message contains) never changes the service's current model.        *)
(***************************************************************************)
C21_SwitchOnlyOnNotFound ==
    [][model_name' # model_name
       => (/\ svc'.first # None
           /\ svc'.first[1].source = "service"
           /\ svc'.first[1].not_found)]_vars

(***************************************************************************)
(* C22: for every response text the service returns (a JSON object, a JSON *)
(* value of another type such as an array or null, an object whose         *)
(* match_titles/ideas/substitutions are null or not lists, or non-JSON     *)
(* text), provided the service requests themselves succeed,                *)
(* suggest_from_ingredients returns a record with the keys match_titles,   *)
(* ideas and substitutions and does not raise.                             *)
(***************************************************************************)
C22_AlwaysARecord ==
    suggestion.state # "none" =>
       /\ suggestion.state = "returned"
       /\ DOMAIN suggestion.value = {"match_titles", "ideas", "substitutions"}

(***************************************************************************)
(* C23: free-text fallback is delivered: when the structured parse fails   *)
(* and the plain-text request returns non-empty text, that text is still   *)
(* present (under the fallback key 'raw') in what suggest_from_ingredients *)
(* returns, so that the recipe list, when there are no matches, ideas or   *)
(* local matches, shows it as an 'AI Suggestion' entry.                    *)
(***************************************************************************)
\* _generate_json handed over the wrapped plain text
C23_Wrapped ==
    /\ TypeOf(data) = "obj"
    /\ TypeOf(DictGet(data.obj, "raw", PyNone)) = "str"
    /\ DictGet(data.obj, "raw", PyNone).str # <<>>

C23_RawDelivered ==
    (C23_Wrapped /\ suggestion.state # "none") =>
       /\ suggestion.state = "returned"
       /\ "raw" \in DOMAIN suggestion.value
       /\ suggestion.value.raw = DictGet(data.obj, "raw", PyNone).str

(***************************************************************************)
(* The end of a suggest request in the recipe list: the Worker's result    *)
(* goes to on_result, its error to a handler that shows the message.       *)
(***************************************************************************)

\* worker.error.connect(lambda e: QMessageBox.warning(self, "AI Error", str(e))):
\* the warning is all that is shown, no card is rendered
OnError ==
    /\ call = NoCall
    /\ \E ings \in IngsArgs, e \in ServiceErrors, downwards \in BOOLEAN :
          /\ call' = [op |-> "on_error", ings |-> ings, text |-> ErrorText(e),
                      known |-> list_recipes(recipes, downwards)]
          /\ ret' = Shown("warning", <<>>, <<>>)
    /\ UNCHANGED <<pantry, grocery, recipes, aiVars, appVars>>

SuggestEndNext ==
    \/ OnResult
    \/ OnError

SpecSuggestEnd == LocalInit /\ [][SuggestEndNext]_vars

(***************************************************************************)
(* C24: local fallback covers an unusable service: whenever a suggest      *)
(* request ends without catalog matches and without ideas, including when  *)
(* the service call ends with an error notification instead of a result,   *)
(* local fallback matching is computed over the known recipes and its      *)
(* matches are shown.                                                      *)
(***************************************************************************)
\* The request ended with nothing from the service
C24_NothingSuggested ==
    \/ call.op = "on_error"
    \/ /\ call.op = "on_result"
       /\ call.data.ideas = <<>>
       /\ \A i \in 1..Len(call.known), k \in 1..Len(call.data.match_titles) :
             call.known[i].title # call.data.match_titles[k]

C24_LocalFallback ==
    (C24_NothingSuggested /\ LocalMatches(call.known, call.ings) # <<>>)
    => ret = Shown("local", LocalMatches(call.known, call.ings), <<>>)

(***************************************************************************)
(* GroceryWidget                                                           *)
(*                                                                         *)
(* refresh fills the list from list_grocery and keeps (item, qty) as each  *)
(* row's data; an in-place edit of a row's text or check state runs        *)
(* _on_item_changed, which writes the store and the row's data and does    *)
(* not refresh. "-" stands for the dash between item and quantity.         *)
(***************************************************************************)

MaxRows == 2

\* f"{item} - {qty}" if qty else item
RowText(item, qty) == IF qty # <<>> THEN item \o <<" ", "-", " ">> \o qty ELSE item

\* refresh: a row per entry of list_grocery
refresh(g) ==
    LET items == list_grocery(g)
    IN  [i \in 1..Len(items) |->
            [text |-> RowText(items[i][1], items[i][2]), checked |-> items[i][3],
             data |-> <<items[i][1], items[i][2]>>]]

\* The item and quantity _on_item_changed reads from a row's text: split
\* at the first dash and stripped when there is one, else the text as it is
EditedItem(txt) ==
    LET n == Find(txt, "-")
    IN  IF n = 0 THEN [item |-> txt, qty |-> <<>>]
        ELSE [item |-> Strip(SubSeq(txt, 1, n - 1)),
              qty |-> Strip(SubSeq(txt, n + 1, Len(txt)))]

\* _on_item_changed: remove the old entry when the item differs from the
\* row's data, upsert, and keep (item, qty) as the row's data
_on_item_changed(g, old_item, txt, checked) ==
    LET e == EditedItem(txt)
        removed == IF e.item # old_item THEN remove_grocery_item(g, old_item) ELSE g
    IN  [grocery |-> upsert_grocery_item(removed, e.item, e.qty, checked),
         data |-> <<e.item, e.qty>>]

\* Inputs: what is typed into the add fields and into a row
AddItemArgs == {<<"a">>, <<"b">>}
AddQuantityArgs == {<<>>, <<"1">>}
EditTextArgs == {<<"a">>, <<"b">>, <<"b", " ">>, <<"c">>, <<"c", " ", "-", " ", "2">>}

\* _on_add with an item: upsert unchecked, refresh
OnAdd ==
    /\ Cardinality(grocery) < MaxRows
    /\ \E item \in AddItemArgs, qty \in AddQuantityArgs :
          /\ grocery' = upsert_grocery_item(grocery, item, qty, FALSE)
          /\ glist' = refresh(grocery')
          /\ call' = [op |-> "_on_add"]
    /\ ret' = <<>>
    /\ UNCHANGED <<pantry, recipes, aiVars, notGlist>>

\* The user edits the text of row i to one of `texts` or toggles its check
\* box: itemChanged
OnItemChangedTo(texts) ==
    /\ \E i \in 1..Len(glist) :
       \E txt \in texts \cup {glist[i].text}, checked \in BOOLEAN :
          /\ txt # glist[i].text \/ checked # glist[i].checked
          /\ LET done == _on_item_changed(grocery, glist[i].data[1], txt, checked)
             IN  /\ grocery' = done.grocery
                 /\ glist' = [glist EXCEPT ![i] = [text |-> txt, checked |-> checked,
                                                   data |-> done.data]]
                 /\ call' = [op |-> "_on_item_changed", old_item |-> glist[i].data[1],
                             item |-> EditedItem(txt).item, qty |-> EditedItem(txt).qty,
                             checked |-> checked, pre |-> grocery]
    /\ ret' = <<>>
    /\ UNCHANGED <<pantry, recipes, aiVars, notGlist>>

OnItemChanged == OnItemChangedTo(EditTextArgs)

\* The check box of a row is toggled, the text stays
OnItemChecked == OnItemChangedTo({})

GroceryWidgetInit == DaoInit /\ AiIdle

GroceryWidgetNext ==
    \/ OnAdd
    \/ OnItemChanged

SpecGroceryWidget == GroceryWidgetInit /\ [][GroceryWidgetNext]_vars

(***************************************************************************)
(* C25: renaming in the grocery list is delete-old plus upsert-new: after  *)
(* any sequence of in-place edits of grocery rows, an edit that changes a  *)
(* row's name from X to Y leaves the store with an entry Y carrying the    *)
(* edited quantity and checked state and with no entry X, and item names   *)
(* stay unique. Names are taken as the store keeps them, stripped.         *)
(***************************************************************************)
C25_Renamed ==
    /\ call.op = "_on_item_changed"
    /\ Strip(call.item) # Strip(call.old_item)

C25_Rename ==
    /\ \A r, q \in grocery : r.item = q.item => r = q
    /\ C25_Renamed =>
          /\ [item |-> Strip(call.item), quantity |-> call.qty,
              checked |-> call.checked] \in grocery
          /\ \A r \in grocery : r.item # Strip(call.old_item)

(***************************************************************************)
(* MainWindow.add_missing_to_grocery                                       *)
(*                                                                         *)
(* open_recipe_detail and the detail page's "Add Missing to Grocery" both  *)
(* run add_missing_to_grocery: every name compute_missing_ingredients      *)
(* reports is upserted with an empty quantity and unchecked, then the      *)
(* grocery page is refreshed.  The names are the recipe's own, uncut:      *)
(* suggest_from_ingredients keeps str(name)[:120] of every name that is    *)
(* not blank, and upsert_grocery_item strips what it stores.               *)
(***************************************************************************)
\* A plausible slip: entries that exist already are left as they are
RECURSIVE add_missing_to_grocery_keeping_existing(_, _)
add_missing_to_grocery_keeping_existing(g, missing) ==
    IF missing = <<>> THEN g
    ELSE add_missing_to_grocery_keeping_existing(
             IF \E r \in g : r.item = Strip(Head(missing)) THEN g
             ELSE upsert_grocery_item(g, Head(missing), <<>>, FALSE),
             Tail(missing))

\* for item in missing: upsert_grocery_item(item, "", False)
RECURSIVE add_missing_to_grocery(_, _)
add_missing_to_grocery(g, missing) ==
    IF missing = <<>> THEN g
    ELSE add_missing_to_grocery(upsert_grocery_item(g, Head(missing), <<>>, FALSE),
                                Tail(missing))

\* Inputs: the ingredients of the opened recipe
OpenedIngredientLists ==
    SeqsUpTo({[name |-> n, quantity |-> <<"1">>] :
                 n \in {<<" ", "a">>, <<"A">>, <<"b">>}}, MaxIngredients)

AddMissingToGrocery ==
    \E ings \in OpenedIngredientLists :
        LET missing == compute_missing_ingredients(pantry, ings)
        IN  /\ grocery' = add_missing_to_grocery(grocery, missing)
            /\ glist' = refresh(grocery')
            /\ call' = [op |-> "add_missing_to_grocery", missing |-> missing,
                        pre |-> grocery, pantry |-> pantry]
            /\ UNCHANGED <<pantry, recipes, ret, aiVars, notGlist>>

\* PantryWidget._on_add with an item: upsert of the stripped fields; the
\* refresh that follows redraws the pantry list, which no claim reads
StockArgs == {<<"b">>}

PantryOnAdd ==
    \E item \in StockArgs, qty \in AddQuantityArgs :
        /\ pantry' = upsert_pantry_item(pantry, Strip(item), Strip(qty))
        /\ call' = [op |-> "pantry_on_add"]
        /\ ret' = <<>>
        /\ UNCHANGED <<grocery, recipes, aiVars, appVars>>

AddMissingNext ==
    \/ PantryOnAdd
    \/ OnAdd
    \/ OnItemChecked
    \/ AddMissingToGrocery

SpecAddMissing == GroceryWidgetInit /\ [][AddMissingNext]_vars

\* The names the call reported missing, as given and as stored
C26_Missing == {call.missing[i] : i \in 1..Len(call.missing)}
C26_Stored == {Strip(n) : n \in C26_Missing}

\* The store after resetting or adding the entries named in `names`
C26_After(names) ==
    {r \in call.pre : r.item \notin names}
        \cup {[item |-> n, quantity |-> <<>>, checked |-> FALSE] : n \in names}

(***************************************************************************)
(* C26 as stated: after add_missing_to_grocery every existing entry whose  *)
(* name equals a missing ingredient is reset to an empty quantity and      *)
(* unchecked, every other missing ingredient has a new unchecked entry     *)
(* with an empty quantity, all remaining grocery entries and the whole     *)
(* pantry are unchanged.                                                   *)
(***************************************************************************)
C26_Original ==
    call.op = "add_missing_to_grocery" =>
        /\ grocery = C26_After(C26_Missing)
        /\ pantry = call.pantry

(***************************************************************************)
(* C26 amended: the same with every missing ingredient's name taken with   *)
(* its surrounding blanks removed, which is the name upsert_grocery_item   *)
(* stores: the entry reset or added for the ingredient " a" is "a".        *)
(***************************************************************************)
C26_ResetOrAdded ==
    call.op = "add_missing_to_grocery" =>
        /\ grocery = C26_After(C26_Stored)
        /\ pantry = call.pantry

\* A missing ingredient with a blank resets a checked entry with a quantity,
\* another one is added, and a third entry stays
C26_Witness ==
    /\ call.op = "add_missing_to_grocery"
    /\ \E n \in C26_Missing :
          /\ Strip(n) # n
          /\ \E r \in call.pre : r.item = Strip(n) /\ r.checked /\ r.quantity # <<>>
    /\ \E n \in C26_Stored : \A r \in call.pre : r.item # n
    /\ \E r \in call.pre : r.item \notin C26_Stored /\ r.checked

(***************************************************************************)
(* C29: when several pantry entries are equal ignoring letter case, an     *)
(* ingredient of that name is reported missing by                          *)
(* compute_missing_ingredients iff the entry that list_pantry returns last *)
(* among them has an empty quantity, whatever the other entries hold.      *)
(***************************************************************************)
\* The positions in list_pantry() of the entries equal to n ignoring case
C29_Positions(n) ==
    {j \in 1..Len(list_pantry(pantry)) : Lower(list_pantry(pantry)[j][1]) = Lower(n)}

\* The quantity of the last of them
C29_LastQuantity(n) ==
    list_pantry(pantry)[CHOOSE j \in C29_Positions(n) : \A o \in C29_Positions(n) : o <= j][2]

C29_Reported(n) == \E k \in 1..Len(ret) : ret[k] = n

C29_LastEntryDecides ==
    call.op = "compute_missing_ingredients" =>
        \A i \in 1..Len(call.ingredients) :
            LET n == Get(call.ingredients[i], "name", Empty)
            IN  (n # Empty /\ Cardinality(C29_Positions(n)) >= 2)
                => (C29_Reported(n) <=> C29_LastQuantity(n) = Empty)

\* Two entries equal ignoring case with different quantities, both ways: in
\* the state reached the last one is empty, an earlier one is stocked, and
\* the ingredient is reported
C29_Witness ==
    /\ call.op = "compute_missing_ingredients"
    /\ \E i \in 1..Len(call.ingredients) :
          LET n == Get(call.ingredients[i], "name", Empty)
          IN  /\ n # Empty
              /\ Cardinality(C29_Positions(n)) >= 2
              /\ C29_LastQuantity(n) = Empty
              /\ \E j \in C29_Positions(n) : list_pantry(pantry)[j][2] # Empty
              /\ C29_Reported(n)

(***************************************************************************)
(* C27 as stated: a model-not-found failure during GeminiChat.send         *)
(* discards the conversation: after such a send, whether a fallback        *)
(* succeeded or all failed, the handle used for later sends holds no       *)
(* exchange from before the send (only the send's own exchange when it     *)
(* returned).                                                              *)
(***************************************************************************)
\* A send that went into the fallback loop is over
C27_AfterNotFound == chat_call.pc \in {"returned", "raised"} /\ chat_call.next >= 1

\* The handle holds the send's own exchange at most
C27_Discarded == chat.history = (IF chat_call.pc = "returned" THEN 1 ELSE 0)

C27_Original == C27_AfterNotFound => C27_Discarded

(***************************************************************************)
(* C27 amended: the conversation is discarded when at least one fallback   *)
(* model was built during the send; each such attempt replaces the chat    *)
(* handle by a fresh one with an empty history.  When no fallback model    *)
(* could be built the send raises and the handle keeps every exchange it   *)
(* held before.                                                            *)
(***************************************************************************)
C27_DiscardedWhenBuilt ==
    C27_AfterNotFound =>
        IF chat_call.switches >= 1
        THEN C27_Discarded
        ELSE chat_call.pc = "raised" /\ chat.history = chat_call.before

\* A conversation of two exchanges is gone after a send that fell back and
\* returned
C27_Witness ==
    /\ C27_AfterNotFound
    /\ chat_call.before = 2
    /\ chat_call.switches >= 1
    /\ chat_call.pc = "returned"
    /\ chat.history = 1

(***************************************************************************)
(* GeminiService when every model handle can be built                      *)
(*                                                                         *)
(* genai.GenerativeModel(name) succeeds for every name: __init__ keeps the *)
(* configured model and _try_switch_model builds the first name it tries.  *)
(***************************************************************************)
AllBuildable == {FallbackNames}

GeminiBuiltInit == GeminiInit /\ model_name = ConfiguredModel

GeminiBuiltNext ==
    \/ StartCall
    \/ RequestJsonFirstGiven(AllBuildable)
    \/ RequestJsonRetry
    \/ RequestPlain
    \/ RequestTextFirstGiven(AllBuildable)
    \/ RequestTextRetry

SpecGeminiBuilt == GeminiBuiltInit /\ [][GeminiBuiltNext]_vars

(***************************************************************************)
(* C28: when building a model handle never fails, the current model is     *)
(* always the configured model or one of the first two fallbacks: a switch *)
(* goes to the first fallback that differs from the current model, so      *)
(* repeated switches alternate between the first two and the third and     *)
(* fourth fallback are never selected.                                     *)
(***************************************************************************)
C28_FirstTwo ==
    [][/\ model_name' \in {ConfiguredModel, _FALLBACK_MODELS[1], _FALLBACK_MODELS[2]}
       /\ model_name' # model_name
          => model_name' = (IF model_name = _FALLBACK_MODELS[1]
                            THEN _FALLBACK_MODELS[2] ELSE _FALLBACK_MODELS[1])]_vars

\* A call that began on the first fallback has switched to the second
C28_Witness ==
    /\ model_name = _FALLBACK_MODELS[2]
    /\ svc.switches = 1
    /\ svc.not_found >= 1

(***************************************************************************)
(* C30: seeding is not atomic.  Each seed INSERT of init_db is committed   *)
(* on its own: when init_db raises after k >= 1 inserts, those k recipes   *)
(* stay in the table; and an init_db that finds the table non-empty        *)
(* inserts nothing, so the remaining seed recipes are never inserted by a  *)
(* later startup.                                                          *)
(***************************************************************************)
C30_NotAtomic ==
    [][store'.runs = store.runs + 1
       => /\ call'.raised
             => /\ call'.pre.recipes = <<>>
                /\ call'.inserted < Len(SeedRecipes)
                /\ recipes' = InsertSeeds(<<>>, call'.inserted)
          /\ recipes # <<>> => recipes' = recipes]_vars

\* A startup that raised after the first seed INSERT is followed by one that
\* succeeds and leaves the table with that one seed recipe
C30_Witness ==
    /\ call.op = "init_db" /\ ~call.raised
    /\ store.runs = 2 /\ store.failed
    /\ call.pre.recipes = InsertSeeds(<<>>, 1)
    /\ recipes = InsertSeeds(<<>>, 1)

Spec == SpecPantry
====
